---------------------------- MODULE Spec2Model ----------------------------
(***************************************************************************)
(* Combat and character-state core of human-vs-bots: the Player and Enemy  *)
(* entities as driven by GameScene.update, the Phaser scheduler events     *)
(* they register (animationcomplete listeners, the counter-dodge           *)
(* delayedCall, the attack-warning tween) and the frame clock.             *)
(*                                                                         *)
(* Time is in milliseconds.  One frame is: FrameStart (the clock, the      *)
(* animations and the physics step advance by the frame's delta), then     *)
(* the scheduler events that became due, then GameScene.update.            *)
(***************************************************************************)
EXTENDS Integers, Sequences, FiniteSets, TLC

NULL == "null"

(***************************************************************************)
(* Program constants                                                       *)
(***************************************************************************)
MAX_JUMPS == 2
JUMP_BUFFER_TIME == 150
PLAYER_MAX_HEALTH == 100
PLAYER_INVINCIBILITY_DURATION == 500
COMBO_WINDOW == 800
COMBO_MIN_DELAY == 250
COUNTER_DODGE_BUFFER == 600
DAMAGE_PUNCH == 10
DAMAGE_UPPERCUT == 20
DAMAGE_AERIAL_PUNCH == 15
ENEMY_MAX_HEALTH == 300
ENEMY_INVINCIBILITY_DURATION == 800
ATTACK_WARNING_DURATION == 500
ENEMY_DAMAGE_PUNCH == 10
ENEMY_DAMAGE_SIDEKICK == 15
ENEMY_DAMAGE_JUMP_SIDEKICK == 20
GAME_WIDTH == 1280
PLAYER_BODY_WIDTH == 80
PLAYER_BODY_HEIGHT == 200
ENEMY_BODY_WIDTH == 100
ENEMY_BODY_HEIGHT == 220
IDLE_TO_CHASE_DISTANCE == 2000
CHASE_TO_IDLE_DISTANCE == 600
ATTACK_DISTANCE == 120
DISTANCE_VARIANCE == 30
ATTACK_COOLDOWN == 800
RETREAT_DURATION == 500
ATTACK_PAUSE_DURATION == 200

(***************************************************************************)
(* Bounds of the model                                                     *)
(***************************************************************************)
\* the frame clock stops at MaxNow ms
MaxNow == 1300
\* a frame lasts TickMs or 2 * TickMs
TickMs == 50
\* the frame clock of a run that follows the AI controller stops at AIMaxNow ms
AIMaxNow == 2000
\* the frame clock of a run that follows the fighters' places stops at
\* BrawlMaxNow ms
BrawlMaxNow == 1000

PlayerStates ==
  {"IDLE", "RUNNING", "JUMPING", "FALLING", "ATTACKING", "HURT", "DEAD", "DODGING"}
EnemyStates == {"IDLE", "RUNNING", "JUMPING", "FALLING", "ATTACKING", "HURT"}

(***************************************************************************)
(* Animations.  A non-looping animation shows display k (0-based) while    *)
(* k * 1000 <= t * frameRate < (k+1) * 1000 and completes once every       *)
(* display was shown; a yoyo animation of n frames has 2n-1 displays.      *)
(***************************************************************************)
PlayerAnims ==
  [ juan_idle        |-> [frames |-> 6,  rate |-> 8,  yoyo |-> FALSE, loop |-> TRUE],
    running          |-> [frames |-> 8,  rate |-> 24, yoyo |-> FALSE, loop |-> TRUE],
    juan_jump        |-> [frames |-> 4,  rate |-> 10, yoyo |-> FALSE, loop |-> FALSE],
    juan_punch       |-> [frames |-> 6,  rate |-> 12, yoyo |-> FALSE, loop |-> FALSE],
    juan_uppercut    |-> [frames |-> 5,  rate |-> 14, yoyo |-> TRUE,  loop |-> FALSE],
    juan_aerial_punch|-> [frames |-> 4,  rate |-> 12, yoyo |-> FALSE, loop |-> FALSE],
    juan_getting_punched
                     |-> [frames |-> 5,  rate |-> 18, yoyo |-> TRUE,  loop |-> FALSE],
    juan_getting_punched_stomach
                     |-> [frames |-> 5,  rate |-> 18, yoyo |-> TRUE,  loop |-> FALSE],
    juan_dodge       |-> [frames |-> 4,  rate |-> 14, yoyo |-> TRUE,  loop |-> FALSE],
    juan_matrix_dodge|-> [frames |-> 5,  rate |-> 14, yoyo |-> TRUE,  loop |-> FALSE],
    juan_kipup       |-> [frames |-> 11, rate |-> 16, yoyo |-> FALSE, loop |-> FALSE] ]

EnemyAnims ==
  [ enemy_idle       |-> [frames |-> 3,  rate |-> 6,  yoyo |-> FALSE, loop |-> TRUE],
    enemy_running    |-> [frames |-> 8,  rate |-> 12, yoyo |-> FALSE, loop |-> TRUE],
    enemy_punch      |-> [frames |-> 4,  rate |-> 12, yoyo |-> FALSE, loop |-> FALSE],
    enemy_sidekick   |-> [frames |-> 5,  rate |-> 18, yoyo |-> TRUE,  loop |-> FALSE],
    enemy_jump_sidekick
                     |-> [frames |-> 5,  rate |-> 16, yoyo |-> TRUE,  loop |-> FALSE],
    enemy_getting_punched
                     |-> [frames |-> 4,  rate |-> 18, yoyo |-> TRUE,  loop |-> FALSE],
    enemy_getting_punched_stomach
                     |-> [frames |-> 5,  rate |-> 18, yoyo |-> TRUE,  loop |-> FALSE] ]

\* number of frame displays of one play of the animation
Displays(a) == IF a.yoyo THEN 2 * a.frames - 1 ELSE a.frames

\* the animation has shown its last display for its whole duration
AnimDone(a, t) == ~a.loop /\ t * a.rate >= Displays(a) * 1000

\* currentFrame.index (1-based position in the frame list) at elapsed time t
FrameIndex(a, t) ==
  LET k == IF a.loop THEN 0 ELSE (t * a.rate) \div 1000
      kk == IF k >= Displays(a) THEN Displays(a) - 1 ELSE k
  IN  IF kk < a.frames THEN kk + 1 ELSE 2 * a.frames - 1 - kk

\* sprite.once('animationcomplete', cb): cb is appended to the sprite's listeners
Once(c, cb) == [c EXCEPT !.listeners = Append(@, cb)]


(***************************************************************************)
(* Player (src/unnamed/part_007).  A player is a record p; every method is *)
(* an operator from the record before the call to the record after it.     *)
(* body is what the physics engine reports: blockedDown (body.blocked.down)*)
(* vyUp (velocity.y < 0) and vxFast (|velocity.x| > 10).  listeners are    *)
(* the pending once('animationcomplete') callbacks of the sprite, dodgeDue *)
(* the time at which the pending counter-dodge delayedCall fires (-1 when  *)
(* none is pending).                                                       *)
(***************************************************************************)
PlayerInit ==
  [ currentState |-> "IDLE", facingRight |-> TRUE, jumpsRemaining |-> MAX_JUMPS,
    comboCount |-> 0, comboTimer |-> 0, comboDelayTimer |-> 0,
    bufferedAttack |-> NULL, jumpBufferTimer |-> 0,
    currentHealth |-> PLAYER_MAX_HEALTH, isInvincible |-> FALSE,
    invincibilityTimer |-> 0, currentAttackType |-> NULL,
    counterDodgeQueued |-> FALSE,
    anim |-> "juan_idle", animT |-> 0, animPlaying |-> TRUE, listeners |-> << >>,
    dodgeDue |-> -1,
    body |-> [blockedDown |-> TRUE, vyUp |-> FALSE, vxFast |-> FALSE] ]

PlayerPlay(p, key) == [p EXCEPT !.anim = key, !.animT = 0, !.animPlaying = TRUE]

\* the 'animationcomplete' callback of triggerHurt, performDodge,
\* performMatrixDodge and performCounterDodge
PlayerBackToIdle(p) == PlayerPlay([p EXCEPT !.currentState = "IDLE"], "juan_idle")

PlayerTriggerHurtAnim(p, key) ==
  IF p.currentState = "HURT" THEN p
  ELSE Once(PlayerPlay([p EXCEPT !.currentState = "HURT"], key), "idle")

PlayerTriggerHurt(p) == PlayerTriggerHurtAnim(p, "juan_getting_punched")

PlayerTriggerHurtStomach(p) ==
  PlayerTriggerHurtAnim(p, "juan_getting_punched_stomach")

PlayerHandleDebugHurt(p, in) ==
  LET p1 == IF in.key = "P" THEN PlayerTriggerHurt(p) ELSE p
  IN  IF in.key = "O" THEN PlayerTriggerHurtStomach(p1) ELSE p1

PlayerPerformDodge(p) ==
  Once(PlayerPlay([p EXCEPT !.currentState = "DODGING"], "juan_dodge"), "idle")

PlayerPerformMatrixDodge(p) ==
  Once(PlayerPlay([p EXCEPT !.currentState = "DODGING"], "juan_matrix_dodge"), "idle")

\* the three state guards shared by handleDodge, handleMatrixDodge and
\* handleCounterDodge
PlayerDodgeLocked(p) == p.currentState \in {"DODGING", "ATTACKING", "HURT"}

PlayerHandleDodge(p, in) ==
  IF PlayerDodgeLocked(p) THEN p
  ELSE IF in.key = "I" THEN PlayerPerformDodge(p) ELSE p

PlayerHandleMatrixDodge(p, in) ==
  IF PlayerDodgeLocked(p) THEN p
  ELSE IF in.key = "L" THEN PlayerPerformMatrixDodge(p) ELSE p

DodgeAnimations == <<"juan_dodge", "juan_matrix_dodge", "juan_kipup">>

\* a counter-dodge that ends the invincibility as its animation starts
PlayerPerformCounterDodgeVulnerable(p, rnd) ==
  Once(PlayerPlay([p EXCEPT !.currentState = "DODGING",
                            !.counterDodgeQueued = FALSE,
                            !.isInvincible = FALSE,
                            !.invincibilityTimer = 0],
                  DodgeAnimations[rnd + 1]), "idle")

\* a counter-dodge that always grants the invincibility of the buffer
PlayerPerformCounterDodgeInvincible(p, rnd) ==
  Once(PlayerPlay([p EXCEPT !.currentState = "DODGING",
                            !.counterDodgeQueued = FALSE,
                            !.isInvincible = TRUE,
                            !.invincibilityTimer = COUNTER_DODGE_BUFFER],
                  DodgeAnimations[rnd + 1]), "idle")

\* rnd is Math.floor(Math.random() * 3)
PlayerPerformCounterDodge(p, rnd) ==
  Once(PlayerPlay([p EXCEPT !.currentState = "DODGING",
                            !.counterDodgeQueued = FALSE],
                  DodgeAnimations[rnd + 1]), "idle")

\* a queued counter-dodge whose invincibility lasts only until the attack
PlayerQueueWithoutBuffer(p, delayMs, now, rnd) ==
  LET p1 == [p EXCEPT !.counterDodgeQueued = TRUE,
                      !.isInvincible = TRUE,
                      !.invincibilityTimer = delayMs]
  IN  IF delayMs > 0 THEN [p1 EXCEPT !.dodgeDue = now + delayMs]
      ELSE [p1 EXCEPT !.currentState = "DODGING", !.counterDodgeQueued = FALSE]

\* a queued counter-dodge that starts its dodge at once, whatever the delay
PlayerQueueAtOnce(p, delayMs, now, rnd) ==
  PlayerPerformCounterDodge(
    [p EXCEPT !.counterDodgeQueued = TRUE,
              !.isInvincible = TRUE,
              !.invincibilityTimer = delayMs + COUNTER_DODGE_BUFFER], rnd)

\* a queued counter-dodge that grants no invincibility for the wait
PlayerQueueUnshielded(p, delayMs, now, rnd) ==
  LET p1 == [p EXCEPT !.counterDodgeQueued = TRUE]
  IN  IF delayMs > 0 THEN [p1 EXCEPT !.dodgeDue = now + delayMs]
      ELSE PlayerPerformCounterDodge(p1, rnd)

\* delayMs is getTimeUntilEnemyAttack(), now is scene.time.now
PlayerQueueCounterDodge(p, delayMs, now, rnd) ==
  LET p1 == [p EXCEPT !.counterDodgeQueued = TRUE,
                      !.isInvincible = TRUE,
                      !.invincibilityTimer = delayMs + COUNTER_DODGE_BUFFER]
  IN  IF delayMs > 0 THEN [p1 EXCEPT !.dodgeDue = now + delayMs]
      ELSE PlayerPerformCounterDodge(p1, rnd)

\* handleCounterDodge reads the key (JustDown) only past its guards
PlayerCounterDodgeGuard(p) == PlayerDodgeLocked(p) \/ p.counterDodgeQueued

PlayerHandleCounterDodge(p, in, warning, delayMs, now) ==
  IF PlayerCounterDodgeGuard(p) THEN p
  ELSE IF in.key = "U"
       THEN IF warning THEN PlayerQueueCounterDodge(p, delayMs, now, in.rnd)
            ELSE PlayerPerformCounterDodge(p, in.rnd)
       ELSE p

PlayerIsOnGround(p) == p.body.blockedDown

PlayerStartAttack(p, type, key) ==
  Once(PlayerPlay([p EXCEPT !.currentState = "ATTACKING",
                            !.currentAttackType = type], key), "attack")

PlayerPerformPunch(p) ==
  LET p1 == PlayerPlay([p EXCEPT !.currentState = "ATTACKING",
                                 !.currentAttackType = "punch"], "juan_punch")
  IN  Once([p1 EXCEPT !.comboCount = 1, !.comboTimer = COMBO_WINDOW,
                      !.comboDelayTimer = COMBO_MIN_DELAY], "attack")

PlayerPerformUppercut(p) == PlayerStartAttack(p, "uppercut", "juan_uppercut")

PlayerPerformAerialPunch(p) ==
  PlayerStartAttack(p, "aerial-punch", "juan_aerial_punch")

\* the combo finisher is taken when the second punch press passes this test
PlayerComboReady(p) == p.comboCount = 1 /\ p.comboDelayTimer <= 0

PlayerHandleAttack(p, in) ==
  LET punchPressed == in.key = "C"
      uppercutPressed == in.key = "V"
      isAttacking == p.currentState = "ATTACKING"
      isAirborne == ~PlayerIsOnGround(p)
  IN  IF p.currentState = "HURT" THEN p
      ELSE IF isAirborne /\ ~isAttacking /\ punchPressed
      THEN PlayerPerformAerialPunch(p)
      ELSE IF punchPressed /\ PlayerComboReady(p)
      THEN [PlayerPerformUppercut([p EXCEPT !.bufferedAttack = NULL])
              EXCEPT !.comboCount = 0, !.comboTimer = 0]
      ELSE IF isAttacking
      THEN IF punchPressed
           THEN [p EXCEPT !.bufferedAttack =
                             IF isAirborne THEN "aerial-punch" ELSE "punch"]
           ELSE IF uppercutPressed THEN [p EXCEPT !.bufferedAttack = "uppercut"]
           ELSE p
      ELSE IF uppercutPressed THEN PlayerPerformUppercut(p)
      ELSE IF punchPressed THEN PlayerPerformPunch(p)
      ELSE p

PlayerOnAttackComplete(p) ==
  IF p.bufferedAttack # NULL
  THEN LET attack == p.bufferedAttack
           p1 == [p EXCEPT !.bufferedAttack = NULL]
       IN  CASE attack = "punch" -> PlayerPerformPunch(p1)
             [] attack = "uppercut" -> PlayerPerformUppercut(p1)
             [] OTHER -> PlayerPerformAerialPunch(p1)
  ELSE PlayerBackToIdle(p)

\* the 'animationcomplete' callback of performPunch/Uppercut/AerialPunch
PlayerAttackListener(p) ==
  PlayerOnAttackComplete([p EXCEPT !.currentAttackType = NULL])

PlayerHandleMovement(p, in) ==
  IF p.currentState \in {"ATTACKING", "HURT", "DODGING"} THEN p
  ELSE IF in.key = "A" THEN [p EXCEPT !.facingRight = FALSE]
  ELSE IF in.key = "D" THEN [p EXCEPT !.facingRight = TRUE]
  ELSE p

\* a buffer that is still open when the timer has just run out
PlayerJumpBufferedInclusive(t) == t >= 0

\* the strict test that lets a buffered jump press fire
PlayerJumpBuffered(t) == t > 0

\* jumpBufferTimer as the jump test of handleJump finds it
PlayerJumpTimer(p, in, delta) ==
  IF in.key = "SPACE" THEN JUMP_BUFFER_TIME
  ELSE IF p.jumpBufferTimer > 0 THEN p.jumpBufferTimer - delta
  ELSE p.jumpBufferTimer

\* jumpsRemaining as the jump test of handleJump finds it
PlayerJumpsLeft(p) == IF p.body.blockedDown THEN MAX_JUMPS ELSE p.jumpsRemaining

\* the jump test of handleJump
PlayerJumps(p, in, delta) ==
  PlayerJumpBuffered(PlayerJumpTimer(p, in, delta)) /\ PlayerJumpsLeft(p) > 0

\* a jump handler that never uses up a jump
PlayerHandleJumpUncounted(p, in, delta) ==
  IF PlayerJumps(p, in, delta)
  THEN [p EXCEPT !.body.vyUp = TRUE, !.jumpsRemaining = PlayerJumpsLeft(p),
                 !.jumpBufferTimer = 0]
  ELSE [p EXCEPT !.jumpsRemaining = PlayerJumpsLeft(p),
                 !.jumpBufferTimer = PlayerJumpTimer(p, in, delta)]

PlayerHandleJump(p, in, delta) ==
  IF PlayerJumps(p, in, delta)
  THEN [p EXCEPT !.body.vyUp = TRUE, !.jumpsRemaining = PlayerJumpsLeft(p) - 1,
                 !.jumpBufferTimer = 0]
  ELSE [p EXCEPT !.jumpsRemaining = PlayerJumpsLeft(p),
                 !.jumpBufferTimer = PlayerJumpTimer(p, in, delta)]

PlayerPlayAnimationForState(p) ==
  LET want == CASE p.currentState = "IDLE" -> "juan_idle"
                [] p.currentState = "RUNNING" -> "running"
                [] p.currentState \in {"JUMPING", "FALLING"} -> "juan_jump"
                [] OTHER -> p.anim
  IN  IF p.anim # want THEN PlayerPlay(p, want) ELSE p

PlayerUpdateState(p) ==
  IF p.currentState \in {"ATTACKING", "HURT", "DODGING"} THEN p
  ELSE LET s == IF ~p.body.blockedDown
                THEN (IF p.body.vyUp THEN "JUMPING" ELSE "FALLING")
                ELSE (IF p.body.vxFast THEN "RUNNING" ELSE "IDLE")
           p1 == [p EXCEPT !.currentState = s]
       IN  IF s # p.currentState THEN PlayerPlayAnimationForState(p1) ELSE p1

\* timers whose combo window never closes
PlayerTimersComboKept(p, delta) ==
  LET it == IF p.invincibilityTimer > 0 THEN p.invincibilityTimer - delta
            ELSE p.invincibilityTimer
  IN  [p EXCEPT !.comboTimer = IF @ > 0 THEN @ - delta ELSE @,
                !.comboDelayTimer = IF @ > 0 THEN @ - delta ELSE @,
                !.invincibilityTimer = it,
                !.isInvincible = IF p.invincibilityTimer > 0 /\ it <= 0
                                 THEN FALSE ELSE @]

\* the timers with the invincibility flag left standing when its timer runs out
PlayerTimersFlagKept(p, delta) ==
  [p EXCEPT !.comboTimer = IF @ > 0 THEN @ - delta ELSE @,
            !.comboCount = IF p.comboTimer > 0 /\ p.comboTimer - delta <= 0
                           THEN 0 ELSE @,
            !.comboDelayTimer = IF @ > 0 THEN @ - delta ELSE @,
            !.invincibilityTimer = IF @ > 0 THEN @ - delta ELSE @]

PlayerTimers(p, delta) ==
  LET ct == IF p.comboTimer > 0 THEN p.comboTimer - delta ELSE p.comboTimer
      cc == IF p.comboTimer > 0 /\ ct <= 0 THEN 0 ELSE p.comboCount
      cd == IF p.comboDelayTimer > 0 THEN p.comboDelayTimer - delta
            ELSE p.comboDelayTimer
      it == IF p.invincibilityTimer > 0 THEN p.invincibilityTimer - delta
            ELSE p.invincibilityTimer
      inv == IF p.invincibilityTimer > 0 /\ it <= 0 THEN FALSE ELSE p.isInvincible
  IN  [p EXCEPT !.comboTimer = ct, !.comboCount = cc, !.comboDelayTimer = cd,
                !.invincibilityTimer = it, !.isInvincible = inv]

\* the player as handleCounterDodge finds it: timers and debug keys are done
PlayerBeforeCounterDodge(p, in, delta) ==
  PlayerHandleDebugHurt(PlayerTimers(p, delta), in)

\* Player.update() up to each handler; warning and delayMs are the GameScene
\* callbacks' answers.  atCounterDodge, atAttack and atJump are the player as
\* handleCounterDodge, handleAttack and handleJump find it; jumped tells
\* whether handleJump performs a jump.
PlayerUpdateStages(p, in, delta, warning, delayMs, now) ==
  LET p1 == PlayerBeforeCounterDodge(p, in, delta)
      p2 == PlayerHandleCounterDodge(p1, in, warning, delayMs, now)
      p3 == PlayerHandleDodge(p2, in)
      p4 == PlayerHandleMatrixDodge(p3, in)
      p5 == PlayerHandleAttack(p4, in)
      p6 == PlayerHandleMovement(p5, in)
      p7 == PlayerHandleJump(p6, in, delta)
  IN  [atCounterDodge |-> p1, afterCounterDodge |-> p2, atAttack |-> p4,
       afterAttack |-> p5, atJump |-> p6, afterJump |-> p7,
       jumped |-> PlayerJumps(p6, in, delta),
       done |-> PlayerUpdateState(p7)]

PlayerUpdate(p, in, delta, warning, delayMs, now) ==
  PlayerUpdateStages(p, in, delta, warning, delayMs, now).done

PlayerIsDead(p) == p.currentHealth <= 0

Max(a, b) == IF a >= b THEN a ELSE b

\* the health left after a hit, not clamped at 0
PlayerHealthUnclamped(h, amount) == h - amount

\* the health left after a hit
PlayerHealthAfter(h, amount) == Max(0, h - amount)

\* a guard that forgets the invincibility
PlayerDamageIgnoredIfDead(p) == p.currentHealth <= 0

\* the guard of Player.takeDamage
PlayerDamageIgnored(p) == p.isInvincible \/ p.currentHealth <= 0

\* a takeDamage() that grants no invincibility after the hit
PlayerTakeDamageUnshielded(p, amount) ==
  IF PlayerDamageIgnored(p) THEN p
  ELSE LET p1 == [p EXCEPT !.currentHealth = PlayerHealthAfter(@, amount),
                           !.body.vxFast = TRUE]
           p2 == PlayerTriggerHurt(p1)
       IN  IF p2.currentHealth <= 0
           THEN [p2 EXCEPT !.currentState = "DEAD",
                           !.body.vxFast = FALSE, !.body.vyUp = FALSE]
           ELSE p2

PlayerTakeDamage(p, amount) ==
  IF PlayerDamageIgnored(p) THEN p
  ELSE LET p1 == [p EXCEPT !.currentHealth = PlayerHealthAfter(@, amount),
                           !.body.vxFast = TRUE,
                           !.isInvincible = TRUE,
                           !.invincibilityTimer = PLAYER_INVINCIBILITY_DURATION]
           p2 == PlayerTriggerHurt(p1)
       IN  IF p2.currentHealth <= 0
           THEN [p2 EXCEPT !.currentState = "DEAD",
                           !.body.vxFast = FALSE, !.body.vyUp = FALSE]
           ELSE p2

\* currentFrame of the player's sprite
PlayerFrameIndex(p) ==
  IF p.animPlaying THEN FrameIndex(PlayerAnims[p.anim], p.animT)
  ELSE IF PlayerAnims[p.anim].yoyo THEN 1 ELSE PlayerAnims[p.anim].frames

\* the animation an attack plays and the frames (currentFrame.index) on which
\* getAttackHitbox() gives it a hitbox; the frames named 'windup' and 'punch'
\* are the 2nd and 3rd of the aerial punch
PlayerActiveFrames(type) ==
  CASE type = "punch" -> [anim |-> "juan_punch", frames |-> 2..3]
    [] type = "uppercut" -> [anim |-> "juan_uppercut", frames |-> 1..3]
    [] type = "aerial-punch" -> [anim |-> "juan_aerial_punch", frames |-> 2..3]
    [] OTHER -> [anim |-> NULL, frames |-> {}]

\* a punch whose hitbox is there from the first frame on
PlayerHitboxLiveFromWindUp(p) ==
  /\ p.currentState = "ATTACKING"
  /\ p.currentAttackType # NULL
  /\ p.anim \in {"juan_punch", "juan_uppercut", "juan_aerial_punch"}
  /\ PlayerFrameIndex(p) <= 3

\* Player.getAttackHitbox() # null: the attack has a hitbox on this frame
PlayerHitboxLive(p) ==
  /\ p.currentState = "ATTACKING"
  /\ p.currentAttackType # NULL
  /\ LET i == PlayerFrameIndex(p)
     IN  CASE p.currentAttackType = "punch" ->
                p.anim = "juan_punch" /\ i >= 2 /\ i <= 3
           [] p.currentAttackType = "uppercut" ->
                p.anim = "juan_uppercut" /\ i >= 1 /\ i <= 3
           [] OTHER ->
                \* frames named 'windup' and 'punch' are the 2nd and 3rd
                p.anim = "juan_aerial_punch" /\ i \in {2, 3}

PlayerGetAttackDamage(p) ==
  CASE p.currentAttackType = "punch" -> DAMAGE_PUNCH
    [] p.currentAttackType = "uppercut" -> DAMAGE_UPPERCUT
    [] p.currentAttackType = "aerial-punch" -> DAMAGE_AERIAL_PUNCH
    [] OTHER -> 0

\* the sprite's 'animationcomplete' event: the listeners registered so far
\* run in registration order, each once; those they register stay pending
RECURSIVE PlayerRunListeners(_, _)
PlayerRunListeners(p, ls) ==
  IF ls = << >> THEN p
  ELSE PlayerRunListeners(
         IF Head(ls) = "attack" THEN PlayerAttackListener(p)
         ELSE PlayerBackToIdle(p),
         Tail(ls))

PlayerAnimationComplete(p) ==
  PlayerRunListeners([p EXCEPT !.listeners = << >>, !.animPlaying = FALSE,
                               !.animT = 0], p.listeners)

\* the animation clock of the sprite advances by the frame's delta
PlayerAnimAdvance(p, delta) ==
  IF p.animPlaying /\ ~PlayerAnims[p.anim].loop
  THEN [p EXCEPT !.animT = @ + delta] ELSE p

PlayerAnimDue(p) == p.animPlaying /\ AnimDone(PlayerAnims[p.anim], p.animT)


(***************************************************************************)
(* Enemy (src/src/entities/Enemy.ts).  warningTween is the telegraphed     *)
(* attack whose warning tween is running (NULL when there is none), the    *)
(* tween completes at attackExecuteTime.  body.speed is 0 for              *)
(* |velocity.x| <= 10, 1 for 10 < |velocity.x| <= 50 and 2 above 50,       *)
(* body.x is sprite.x.  targetX is the set of the target's x, empty for    *)
(* null, accelerationX the sign of the acceleration handleMovement set.    *)
(***************************************************************************)
\* the enemy is created at x = GAME_WIDTH - 100
EnemyStartX == GAME_WIDTH - 100

EnemyInit ==
  [ currentState |-> "IDLE", facingRight |-> FALSE,
    currentHealth |-> ENEMY_MAX_HEALTH, isInvincible |-> FALSE,
    invincibilityTimer |-> 0, currentAttackType |-> NULL,
    pendingAttack |-> NULL, warningTween |-> NULL, attackExecuteTime |-> 0,
    aiMovementDirection |-> 0, aiJumpRequested |-> FALSE, targetX |-> {},
    accelerationX |-> 0,
    anim |-> "enemy_idle", animT |-> 0, animPlaying |-> TRUE, listeners |-> << >>,
    body |-> [blockedDown |-> TRUE, vyUp |-> FALSE, speed |-> 0, x |-> EnemyStartX] ]

EnemyPlay(e, key) == [e EXCEPT !.anim = key, !.animT = 0, !.animPlaying = TRUE]

\* the 'animationcomplete' callback of triggerHurt and triggerHurtStomach
EnemyBackToIdle(e) == EnemyPlay([e EXCEPT !.currentState = "IDLE"], "enemy_idle")

\* the 'animationcomplete' callback of performPunch and performSidekick
EnemyAttackListener(e) == EnemyBackToIdle([e EXCEPT !.currentAttackType = NULL])

EnemyIsShowingWarning(e) == e.pendingAttack # NULL

EnemyIsDead(e) == e.currentHealth <= 0

EnemyGetTimeUntilAttack(e, now) ==
  IF ~EnemyIsShowingWarning(e) THEN 0 ELSE Max(0, e.attackExecuteTime - now)

\* a canAttack() that does not ask whether an attack is under way
EnemyCanAttackMidAttack(e) ==
  /\ e.currentState # "HURT"
  /\ e.currentHealth > 0
  /\ ~EnemyIsShowingWarning(e)

EnemyCanAttack(e) ==
  /\ e.currentState # "ATTACKING"
  /\ e.currentState # "HURT"
  /\ e.currentHealth > 0
  /\ ~EnemyIsShowingWarning(e)

EnemyPerformPunch(e) ==
  Once(EnemyPlay([e EXCEPT !.currentState = "ATTACKING",
                           !.currentAttackType = "punch"], "enemy_punch"), "attack")

\* the variant is chosen from the body when the attack executes
\* a choice of variant that looks at the ground contact only
EnemySidekickVariantAirOnly(e) ==
  IF ~e.body.blockedDown THEN "jump_sidekick" ELSE "sidekick"

\* on the floor with no horizontal velocity
EnemyStandsStill(e) == e.body.blockedDown /\ e.body.speed = 0

EnemySidekickVariant(e) ==
  IF ~e.body.blockedDown \/ e.body.speed = 2 THEN "jump_sidekick" ELSE "sidekick"

EnemyPerformSidekick(e) ==
  LET type == EnemySidekickVariant(e)
      key == IF type = "jump_sidekick" THEN "enemy_jump_sidekick"
             ELSE "enemy_sidekick"
  IN  Once(EnemyPlay([e EXCEPT !.currentState = "ATTACKING",
                               !.currentAttackType = type], key), "attack")

\* a warning that lasts one leg of the yoyo tween only
EnemyShowAttackWarningHalf(e, attackType, now) ==
  [e EXCEPT !.pendingAttack = attackType,
            !.attackExecuteTime = now + ATTACK_WARNING_DURATION \div 2,
            !.warningTween = attackType]

EnemyShowAttackWarning(e, attackType, now) ==
  [e EXCEPT !.pendingAttack = attackType,
            !.attackExecuteTime = now + ATTACK_WARNING_DURATION,
            !.warningTween = attackType]

\* a hide that forgets the tween
EnemyHideAttackWarningOnly(e) == [e EXCEPT !.pendingAttack = NULL]

EnemyHideAttackWarning(e) ==
  [e EXCEPT !.pendingAttack = NULL, !.warningTween = NULL]

\* a guard that lets every living enemy attack
EnemyAttackAcceptedAlive(e) == e.currentHealth > 0

\* punch() and sidekick(): the enemy after the call; the call returned
\* EnemyAttackAccepted(e) on the enemy before it
EnemyAttackAccepted(e) == EnemyCanAttack(e) /\ ~EnemyIsShowingWarning(e)

EnemyPunch(e, now) ==
  IF ~EnemyAttackAccepted(e) THEN e ELSE EnemyShowAttackWarning(e, "punch", now)

EnemySidekick(e, now) ==
  IF ~EnemyAttackAccepted(e) THEN e ELSE EnemyShowAttackWarning(e, "sidekick", now)

\* an onComplete whose callback attacks without asking canAttack() again
EnemyWarningCompleteUnchecked(e) ==
  LET type == e.warningTween
      e1 == EnemyHideAttackWarning(e)
  IN  IF type = "punch" THEN EnemyPerformPunch(e1) ELSE EnemyPerformSidekick(e1)

\* onComplete of the warning tween: hideAttackWarning(), then the callback
\* punch()/sidekick() passed to showAttackWarning
EnemyWarningComplete(e) ==
  LET type == e.warningTween
      e1 == EnemyHideAttackWarning(e)
  IN  IF ~EnemyCanAttack(e1) THEN e1
      ELSE IF type = "punch" THEN EnemyPerformPunch(e1)
      ELSE EnemyPerformSidekick(e1)

EnemyWarningDue(e, now) == e.warningTween # NULL /\ now >= e.attackExecuteTime

\* in.enemyPunch: JustDown of the U key is still unread when the enemy asks
EnemyHandleAttack(e, in, uUnread, now) ==
  IF \/ e.currentState = "ATTACKING"
     \/ e.currentState = "HURT"
     \/ e.currentHealth <= 0
     \/ EnemyIsShowingWarning(e)
  THEN e
  ELSE IF in.key = "U" /\ uUnread THEN EnemyPunch(e, now)
  ELSE IF in.key = "K" THEN EnemySidekick(e, now)
  ELSE e

\* the target of moveLeftBy/moveRightBy is set and the sprite has reached it
EnemyReachedTarget(e) ==
  \E t \in e.targetX :
    \/ e.aiMovementDirection = -1 /\ e.body.x <= t
    \/ e.aiMovementDirection = 1 /\ e.body.x >= t

EnemyHandleMovement(e, in) ==
  IF \/ e.currentState = "HURT"
     \/ (e.currentState = "ATTACKING" /\ e.currentAttackType # "jump_sidekick")
  THEN [e EXCEPT !.accelerationX = 0]
  ELSE IF EnemyReachedTarget(e)
  THEN [e EXCEPT !.aiMovementDirection = 0, !.targetX = {},
                 !.accelerationX = 0, !.body.speed = 0]
  ELSE LET movingLeft == in.key = "G" \/ e.aiMovementDirection = -1
           movingRight == in.key = "J" \/ e.aiMovementDirection = 1
           free == e.currentAttackType # "jump_sidekick"
       IN  IF movingLeft
           THEN [e EXCEPT !.accelerationX = -1,
                          !.facingRight = IF free THEN FALSE ELSE @]
           ELSE IF movingRight
           THEN [e EXCEPT !.accelerationX = 1,
                          !.facingRight = IF free THEN TRUE ELSE @]
           ELSE [e EXCEPT !.accelerationX = IF free THEN 0 ELSE @]

EnemyHandleJump(e, in) ==
  LET jumpRequested == in.key = "Y" \/ e.aiJumpRequested
      e1 == [e EXCEPT !.aiJumpRequested = FALSE]
  IN  IF jumpRequested /\ e.body.blockedDown
      THEN [e1 EXCEPT !.body.vyUp = TRUE] ELSE e1

EnemyPlayAnimationForState(e) ==
  IF e.currentState \in {"IDLE", "JUMPING", "FALLING"}
  THEN (IF e.anim # "enemy_idle" THEN EnemyPlay(e, "enemy_idle") ELSE e)
  ELSE IF e.currentState = "RUNNING"
  THEN (IF e.anim # "enemy_running" THEN EnemyPlay(e, "enemy_running") ELSE e)
  ELSE e

EnemyUpdateState(e) ==
  IF e.currentState \in {"ATTACKING", "HURT"} THEN e
  ELSE LET s == IF ~e.body.blockedDown
                THEN (IF e.body.vyUp THEN "JUMPING" ELSE "FALLING")
                ELSE (IF e.body.speed > 0 THEN "RUNNING" ELSE "IDLE")
           e1 == [e EXCEPT !.currentState = s]
       IN  IF s # e.currentState THEN EnemyPlayAnimationForState(e1) ELSE e1

EnemyTimers(e, delta) ==
  LET it == IF e.invincibilityTimer > 0 THEN e.invincibilityTimer - delta
            ELSE e.invincibilityTimer
      inv == IF e.invincibilityTimer > 0 /\ it <= 0 THEN FALSE ELSE e.isInvincible
  IN  [e EXCEPT !.invincibilityTimer = it, !.isInvincible = inv]

\* Enemy.update()
EnemyUpdate(e, in, delta, uUnread, now) ==
  LET e1 == EnemyTimers(e, delta)
  IN  IF e1.currentHealth <= 0 THEN e1
      ELSE EnemyUpdateState(
             EnemyHandleJump(
               EnemyHandleMovement(
                 EnemyHandleAttack(e1, in, uUnread, now), in), in))

EnemyTriggerHurtAnim(e, key) ==
  IF e.currentState = "HURT" THEN e
  ELSE Once(EnemyPlay([e EXCEPT !.currentState = "HURT",
                                !.currentAttackType = NULL], key), "idle")

EnemyTriggerHurt(e) == EnemyTriggerHurtAnim(e, "enemy_getting_punched")

EnemyTriggerHurtStomach(e) ==
  EnemyTriggerHurtAnim(e, "enemy_getting_punched_stomach")

\* the health left after a hit
EnemyHealthAfter(h, amount) == Max(0, h - amount)

\* the guard of Enemy.takeDamage
EnemyDamageIgnored(e) == e.isInvincible \/ e.currentHealth <= 0

\* attackType is NULL when the caller passes none
EnemyTakeDamage(e, amount, attackType) ==
  IF EnemyDamageIgnored(e) THEN e
  ELSE LET e1 == [e EXCEPT !.currentHealth = EnemyHealthAfter(@, amount),
                           !.body.speed = 2,
                           !.isInvincible = TRUE,
                           !.invincibilityTimer = ENEMY_INVINCIBILITY_DURATION]
           e2 == IF attackType \in {"sidekick", "uppercut"} THEN EnemyTriggerHurt(e1)
                 ELSE IF attackType # NULL THEN EnemyTriggerHurtStomach(e1)
                 ELSE e1
       IN  IF e2.currentHealth <= 0
           THEN [e2 EXCEPT !.body.speed = 0, !.body.vyUp = FALSE,
                           !.accelerationX = 0]
           ELSE e2

EnemyFrameIndex(e) ==
  IF e.animPlaying THEN FrameIndex(EnemyAnims[e.anim], e.animT)
  ELSE IF EnemyAnims[e.anim].yoyo THEN 1 ELSE EnemyAnims[e.anim].frames

\* the animation an attack plays and the frames on which getAttackHitbox()
\* gives it a hitbox
EnemyActiveFrames(type) ==
  CASE type = "punch" -> [anim |-> "enemy_punch", frames |-> {4}]
    [] type = "sidekick" -> [anim |-> "enemy_sidekick", frames |-> {4, 5}]
    [] type = "jump_sidekick" -> [anim |-> "enemy_jump_sidekick", frames |-> {4}]
    [] OTHER -> [anim |-> NULL, frames |-> {}]

\* Enemy.getAttackHitbox() # null: punch_extend is the 4th frame of
\* enemy-punch, kick_extend/kick_follow and jump_kick_extend/_follow the
\* 4th/5th of the sidekick animations
EnemyHitboxLive(e) ==
  /\ e.currentState = "ATTACKING"
  /\ e.currentAttackType # NULL
  /\ LET i == EnemyFrameIndex(e)
     IN  \/ e.anim = "enemy_punch" /\ i = 4
         \/ e.anim = "enemy_sidekick" /\ i \in {4, 5}
         \/ e.anim = "enemy_jump_sidekick" /\ i = 4

EnemyGetAttackDamage(e) ==
  CASE e.currentAttackType = "punch" -> ENEMY_DAMAGE_PUNCH
    [] e.currentAttackType = "sidekick" -> ENEMY_DAMAGE_SIDEKICK
    [] e.currentAttackType = "jump_sidekick" -> ENEMY_DAMAGE_JUMP_SIDEKICK
    [] OTHER -> 0

RECURSIVE EnemyRunListeners(_, _)
EnemyRunListeners(e, ls) ==
  IF ls = << >> THEN e
  ELSE EnemyRunListeners(
         IF Head(ls) = "attack" THEN EnemyAttackListener(e)
         ELSE EnemyBackToIdle(e),
         Tail(ls))

EnemyAnimationComplete(e) ==
  EnemyRunListeners([e EXCEPT !.listeners = << >>, !.animPlaying = FALSE,
                              !.animT = 0], e.listeners)

EnemyAnimAdvance(e, delta) ==
  IF e.animPlaying /\ ~EnemyAnims[e.anim].loop
  THEN [e EXCEPT !.animT = @ + delta] ELSE e

EnemyAnimDue(e) == e.animPlaying /\ AnimDone(EnemyAnims[e.anim], e.animT)


(***************************************************************************)
(* Hitboxes and body bounds, in pixels.  A Phaser.Geom.Rectangle is the    *)
(* record of its x, y (top left corner), width and height; NoRectangle     *)
(* stands for null.  The body set with setSize(BODY_WIDTH, BODY_HEIGHT) is *)
(* scaled with the sprite: SCALE is 0.65 for the player and 0.8 for the    *)
(* enemy.                                                                  *)
(***************************************************************************)
Rectangle(x, y, width, height) ==
  [x |-> x, y |-> y, width |-> width, height |-> height]

NoRectangle == Rectangle(0, 0, 0, 0)

PlayerBody ==
  [ width |-> (PLAYER_BODY_WIDTH * 65) \div 100,
    height |-> (PLAYER_BODY_HEIGHT * 65) \div 100 ]

EnemyBody ==
  [ width |-> (ENEMY_BODY_WIDTH * 8) \div 10,
    height |-> (ENEMY_BODY_HEIGHT * 8) \div 10 ]

\* hitboxWidth, hitboxHeight, offsetX (facing right) and offsetY by attack
PlayerHitboxes ==
  [ punch |-> [width |-> 100, height |-> 60, offsetX |-> 60, offsetY |-> -30],
    uppercut |-> [width |-> 70, height |-> 80, offsetX |-> 40, offsetY |-> -50],
    aerial |-> [width |-> 100, height |-> 60, offsetX |-> 60, offsetY |-> -30] ]

\* the same by animation
EnemyHitboxes ==
  [ enemy_punch |->
      [width |-> 100, height |-> 60, offsetX |-> 70, offsetY |-> -30],
    enemy_sidekick |->
      [width |-> 120, height |-> 80, offsetX |-> 90, offsetY |-> -40],
    enemy_jump_sidekick |->
      [width |-> 140, height |-> 100, offsetX |-> 100, offsetY |-> -20] ]

\* the rectangle of a hitbox h for a sprite at (x, y)
HitboxAt(h, facingRight, x, y) ==
  Rectangle(x + (IF facingRight THEN h.offsetX ELSE -h.offsetX) - h.width \div 2,
            y + h.offsetY - h.height \div 2, h.width, h.height)

\* Player.getAttackHitbox() for a sprite at (x, y)
PlayerGetAttackHitbox(p, x, y) ==
  IF ~PlayerHitboxLive(p) THEN NoRectangle
  ELSE HitboxAt(PlayerHitboxes[IF p.currentAttackType \in {"punch", "uppercut"}
                               THEN p.currentAttackType ELSE "aerial"],
                p.facingRight, x, y)

\* Enemy.getAttackHitbox() for a sprite at (x, y)
EnemyGetAttackHitbox(e, x, y) ==
  IF ~EnemyHitboxLive(e) THEN NoRectangle
  ELSE HitboxAt(EnemyHitboxes[e.anim], e.facingRight, x, y)

\* an overlap test that takes rectangles that only touch as overlapping
HitboxReaches(hitbox, body, x, y) ==
  /\ 2 * hitbox.x <= 2 * x + body.width
  /\ 2 * (hitbox.x + hitbox.width) >= 2 * x - body.width
  /\ 2 * hitbox.y <= 2 * y + body.height
  /\ 2 * (hitbox.y + hitbox.height) >= 2 * y - body.height

\* the overlap test of checkPlayerAttacks and checkEnemyAttacks: the bounds
\* of the defender are x -+ width / 2 and y -+ height / 2 for its sprite at
\* (x, y); both sides of each comparison are doubled
HitboxOverlaps(hitbox, body, x, y) ==
  /\ 2 * hitbox.x < 2 * x + body.width
  /\ 2 * (hitbox.x + hitbox.width) > 2 * x - body.width
  /\ 2 * hitbox.y < 2 * y + body.height
  /\ 2 * (hitbox.y + hitbox.height) > 2 * y - body.height

(***************************************************************************)
(* GameScene (src/src/scenes/GameScene.ts) with one enemy                  *)
(***************************************************************************)
IsAnyEnemyShowingWarning(e) == ~EnemyIsDead(e) /\ EnemyIsShowingWarning(e)

GetTimeUntilEnemyAttack(e, now) ==
  IF ~EnemyIsDead(e) /\ EnemyIsShowingWarning(e)
  THEN EnemyGetTimeUntilAttack(e, now) ELSE 0

\* overlap: the hitbox rectangle intersects the enemy's body rectangle
CheckPlayerAttacks(p, e, overlap) ==
  IF ~PlayerHitboxLive(p) THEN e
  ELSE IF EnemyIsDead(e) \/ e.isInvincible THEN e
  ELSE IF overlap
       THEN EnemyTakeDamage(e, PlayerGetAttackDamage(p), p.currentAttackType)
       ELSE e

\* overlap: the hitbox rectangle intersects the player's body rectangle
CheckEnemyAttacks(p, e, overlap) ==
  IF PlayerIsDead(p) \/ p.isInvincible THEN p
  ELSE IF EnemyIsDead(e) THEN p
  ELSE IF ~EnemyHitboxLive(e) THEN p
  ELSE IF overlap THEN PlayerTakeDamage(p, EnemyGetAttackDamage(e))
  ELSE p

\* a checkDeath() that looks at the player only
CheckDeathPlayerOnly(ended, p, e) == ended \/ PlayerIsDead(p)

\* gameEnded after checkDeath()
CheckDeath(ended, p, e) == ended \/ PlayerIsDead(p) \/ EnemyIsDead(e)

(***************************************************************************)
(* EnemyAIController.update, reduced to the attack it may request: the     *)
(* controller calls punch() or sidekick() from its ATTACK state, and only  *)
(* while the player is alive.                                              *)
(***************************************************************************)
AIChoices == {"none", "punch", "sidekick"}

AIControllerUpdate(e, p, ai, now) ==
  IF EnemyIsDead(e) \/ PlayerIsDead(p) THEN e
  ELSE IF ai = "punch" /\ EnemyCanAttack(e) THEN EnemyPunch(e, now)
  ELSE IF ai = "sidekick" /\ EnemyCanAttack(e) THEN EnemySidekick(e, now)
  ELSE e

(***************************************************************************)
(* EnemyAIController (src/src/scenes/BootScene.ts), in full.  Its          *)
(* operators take and return w, the controller's fields (w.ai) and the     *)
(* enemy it drives (w.enemy).  offset is playerX - enemyX.  timeouts holds *)
(* the setTimeout callbacks that are pending: due is the time at which the *)
(* callback may run, to the state it moves to.  roll holds the values      *)
(* Math.random() yields in one update: variance the distance variance,     *)
(* jump, pause, kick and retreat the outcomes of the chance tests and      *)
(* pauseMs the hesitation.  Distances and the variance are whole numbers.  *)
(***************************************************************************)
AIStates == {"IDLE", "CHASE", "ATTACK", "RETREAT"}

AIInit ==
  [ currentState |-> "IDLE", stateTimer |-> 0,
    attackCooldown |-> ATTACK_COOLDOWN, lastAttackTime |-> 0,
    attackPauseTimer |-> 0, isWaitingToAttack |-> FALSE, timeouts |-> {} ]

\* (Math.random() - 0.5) * 2 * DISTANCE_VARIANCE lies in [-30, 30): its
\* extremes, zero, and the values at which the Chase -> Attack test changes
\* its outcome for a distance of 100 (-20, -19) and of 130 (10, 11)
Variances ==
  {-DISTANCE_VARIANCE, -20, -19, 0, 10, 11, DISTANCE_VARIANCE - 1}

\* ATTACK_PAUSE_DURATION * (0.5 + Math.random()) lies in [100, 300)
PauseDurations ==
  {ATTACK_PAUSE_DURATION \div 2, ATTACK_PAUSE_DURATION,
   ATTACK_PAUSE_DURATION + ATTACK_PAUSE_DURATION \div 2 - 1}

NoRoll ==
  [ variance |-> 0, jump |-> FALSE, pause |-> FALSE,
    pauseMs |-> ATTACK_PAUSE_DURATION, kick |-> FALSE, retreat |-> FALSE ]

Abs(x) == IF x < 0 THEN -x ELSE x

EnemyStopMoving(e) == [e EXCEPT !.aiMovementDirection = 0, !.targetX = {}]

EnemyMoveLeftBy(e, pixels) ==
  [e EXCEPT !.targetX = {e.body.x - pixels}, !.aiMovementDirection = -1]

EnemyMoveRightBy(e, pixels) ==
  [e EXCEPT !.targetX = {e.body.x + pixels}, !.aiMovementDirection = 1]

EnemyStartMovingLeft(e) == [e EXCEPT !.aiMovementDirection = -1]

EnemyStartMovingRight(e) == [e EXCEPT !.aiMovementDirection = 1]

EnemySetFacing(e, right) == [e EXCEPT !.facingRight = right]

EnemyJump(e) ==
  IF e.body.blockedDown /\ e.currentHealth > 0
  THEN [e EXCEPT !.aiJumpRequested = TRUE] ELSE e

AITransitionTo(w, newState) ==
  [ ai |-> [w.ai EXCEPT !.isWaitingToAttack = FALSE, !.currentState = newState,
                        !.stateTimer = 0],
    enemy |-> EnemyStopMoving(w.enemy) ]

\* a Chase that turns to Attack on the nominal distance, whatever the variance
AICloseEnoughNominal(distance, variance) == distance < ATTACK_DISTANCE

\* the Chase -> Attack test
AICloseEnough(distance, variance) == distance < ATTACK_DISTANCE + variance

\* a detection range twice as wide
AIDetectsTwiceAsFar(distance, variance) ==
  distance < 2 * IDLE_TO_CHASE_DISTANCE + variance

\* the Idle -> Chase test
AIDetects(distance, variance) == distance < IDLE_TO_CHASE_DISTANCE + variance

AICheckStateTransitions(w, distance, variance) ==
  CASE w.ai.currentState = "IDLE" ->
         IF AIDetects(distance, variance) THEN AITransitionTo(w, "CHASE") ELSE w
    [] w.ai.currentState = "CHASE" ->
         IF AICloseEnough(distance, variance) THEN AITransitionTo(w, "ATTACK")
         ELSE IF distance > CHASE_TO_IDLE_DISTANCE + variance
         THEN AITransitionTo(w, "IDLE")
         ELSE w
    [] w.ai.currentState = "ATTACK" ->
         IF distance > ATTACK_DISTANCE + 20 THEN AITransitionTo(w, "CHASE") ELSE w
    [] w.ai.currentState = "RETREAT" ->
         IF w.ai.stateTimer >= RETREAT_DURATION THEN AITransitionTo(w, "CHASE")
         ELSE w

AIFacePlayer(w, offset) == [w EXCEPT !.enemy = EnemySetFacing(@, offset > 0)]

AIExecuteIdleBehavior(w, offset) ==
  AIFacePlayer([w EXCEPT !.enemy = EnemyStopMoving(@)], offset)

AIExecuteChaseBehavior(w, offset, roll) ==
  LET e1 == IF offset < 0 THEN EnemyStartMovingLeft(w.enemy)
            ELSE EnemyStartMovingRight(w.enemy)
  IN  [w EXCEPT !.enemy = IF roll.jump THEN EnemyJump(e1) ELSE e1]

\* the callbacks are set for 200 ms (to Retreat) and 100 ms (to Chase)
\* an attack that leaves lastAttackTime running
AIPerformAttackNoReset(w, roll, now) ==
  LET e1 == IF roll.kick THEN EnemySidekick(w.enemy, now)
            ELSE EnemyPunch(w.enemy, now)
      timeout == IF roll.retreat THEN [due |-> now + 200, to |-> "RETREAT"]
                 ELSE [due |-> now + 100, to |-> "CHASE"]
  IN  IF EnemyAttackAccepted(w.enemy)
      THEN [ ai |-> [w.ai EXCEPT !.timeouts = @ \cup {timeout}], enemy |-> e1 ]
      ELSE [w EXCEPT !.enemy = e1]

AIPerformAttack(w, roll, now) ==
  LET attackSuccess == EnemyAttackAccepted(w.enemy)
      e1 == IF roll.kick THEN EnemySidekick(w.enemy, now)
            ELSE EnemyPunch(w.enemy, now)
      timeout == IF roll.retreat THEN [due |-> now + 200, to |-> "RETREAT"]
                 ELSE [due |-> now + 100, to |-> "CHASE"]
  IN  IF attackSuccess
      THEN [ ai |-> [w.ai EXCEPT !.lastAttackTime = 0,
                                 !.timeouts = @ \cup {timeout}],
             enemy |-> e1 ]
      ELSE [w EXCEPT !.enemy = e1]

AIExecuteAttackBehavior(w, offset, roll, now) ==
  LET w1 == [AIFacePlayer(w, offset) EXCEPT !.enemy = EnemyStopMoving(@)]
  IN  IF w1.ai.isWaitingToAttack
      THEN (IF w1.ai.attackPauseTimer <= 0
            THEN AIPerformAttack([w1 EXCEPT !.ai.isWaitingToAttack = FALSE],
                                 roll, now)
            ELSE w1)
      ELSE IF w1.ai.lastAttackTime >= w1.ai.attackCooldown
              /\ EnemyCanAttack(w1.enemy)
      THEN (IF roll.pause
            THEN [w1 EXCEPT !.ai.isWaitingToAttack = TRUE,
                            !.ai.attackPauseTimer = roll.pauseMs]
            ELSE AIPerformAttack(w1, roll, now))
      ELSE w1

AIExecuteRetreatBehavior(w, offset) ==
  AIFacePlayer([w EXCEPT !.enemy = IF offset < 0 THEN EnemyStartMovingRight(@)
                                   ELSE EnemyStartMovingLeft(@)], offset)

AIExecuteStateBehavior(w, offset, roll, now) ==
  CASE w.ai.currentState = "IDLE" -> AIExecuteIdleBehavior(w, offset)
    [] w.ai.currentState = "CHASE" -> AIExecuteChaseBehavior(w, offset, roll)
    [] w.ai.currentState = "ATTACK" -> AIExecuteAttackBehavior(w, offset, roll, now)
    [] w.ai.currentState = "RETREAT" -> AIExecuteRetreatBehavior(w, offset)

\* the timers of update(delta)
AITimers(c, delta) ==
  [c EXCEPT !.stateTimer = @ + delta, !.lastAttackTime = @ + delta,
            !.attackPauseTimer = IF @ > 0 THEN @ - delta ELSE @]

\* EnemyAIController.update(delta)
EnemyAIControllerUpdate(w, p, delta, offset, roll, now) ==
  IF EnemyIsDead(w.enemy) THEN [w EXCEPT !.enemy = EnemyStopMoving(@)]
  ELSE IF PlayerIsDead(p)
  THEN [ ai |-> [w.ai EXCEPT !.currentState = "IDLE"],
         enemy |-> EnemyStopMoving(w.enemy) ]
  ELSE AIExecuteStateBehavior(
         AICheckStateTransitions([w EXCEPT !.ai = AITimers(@, delta)],
                                 Abs(offset), roll.variance),
         offset, roll, now)

\* the callback that performAttack hands to setTimeout
\* a callback that changes the state without asking for the Attack state
AITimeoutCallbackUnguarded(w, timeout) ==
  AITransitionTo([w EXCEPT !.ai.timeouts = @ \ {timeout}], timeout.to)

AITimeoutCallback(w, timeout) ==
  LET w1 == [w EXCEPT !.ai.timeouts = @ \ {timeout}]
  IN  IF w1.ai.currentState = "ATTACK" THEN AITransitionTo(w1, timeout.to) ELSE w1

\* the values Math.random() can yield in the update of w that matter to it
AIRolls(w, p, delta, offset) ==
  LET c == w.ai
      live == ~EnemyIsDead(w.enemy) /\ ~PlayerIsDead(p)
      variances == IF live /\ c.currentState \in {"IDLE", "CHASE"}
                   THEN Variances ELSE {0}
  IN  UNION { LET w1 == AICheckStateTransitions([w EXCEPT !.ai = AITimers(@, delta)],
                                                Abs(offset), v)
                  s == w1.ai.currentState
                  attacks == live /\ s = "ATTACK"
                  chances == IF attacks THEN BOOLEAN ELSE {FALSE}
              IN  [ variance : {v},
                    jump : IF live /\ s = "CHASE" THEN BOOLEAN ELSE {FALSE},
                    pause : chances,
                    pauseMs : IF attacks THEN PauseDurations
                              ELSE {ATTACK_PAUSE_DURATION},
                    kick : chances,
                    retreat : chances ]
            : v \in variances }

(***************************************************************************)
(* The remote AI decision service: POST /api/enemy-action of the server    *)
(* (src/server/index.ts) and its client getEnemyAIAction                   *)
(* (src/src/ai/ai-access.ts).  llm is what generateText does: it throws,   *)
(* or it returns with the tool it called (NULL when it called none).  A    *)
(* body is the record of its JSON fields; params is "{}" for an empty      *)
(* object, "{pixels}" for one that holds pixels and "undefined" when the   *)
(* field is missing.                                                       *)
(***************************************************************************)
EnemyActionTypes ==
  {"punch", "sidekick", "jump", "moveLeft", "moveRight", "stopMoving", "wait"}

EnemyTools ==
  {"punch", "sidekick", "jump", "moveLeft", "moveRight", "stopMoving", "wait"}

LLMs == [throws : {TRUE}, tool : {NULL}] \cup [throws : {FALSE}, tool : EnemyTools \cup {NULL}]

\* the handler of POST /api/enemy-action: the status and the body it sends
ServerEnemyAction(llm) ==
  IF llm.throws
  THEN [status |-> 500, body |-> [action |-> "wait", params |-> "undefined"]]
  ELSE IF llm.tool # NULL
  THEN [status |-> 200,
        body |-> [action |-> llm.tool,
                  params |-> IF llm.tool \in {"moveLeft", "moveRight"}
                             THEN "{pixels}" ELSE "{}"]]
  ELSE [status |-> 200, body |-> [action |-> "wait", params |-> "{}"]]

NoBody == [action |-> NULL, params |-> "undefined"]

\* what fetch() can settle to for a request the server answers with reply:
\* it rejects (the server is not reached), it resolves with the server's
\* response, with the server's status and a body that cannot be read as
\* JSON (the connection breaks), or with the response of a gateway
Fetches(reply) ==
  { [rejected |-> TRUE, status |-> 0, readable |-> FALSE, body |-> NoBody],
    [rejected |-> FALSE, status |-> reply.status, readable |-> TRUE,
     body |-> reply.body],
    [rejected |-> FALSE, status |-> reply.status, readable |-> FALSE,
     body |-> NoBody],
    [rejected |-> FALSE, status |-> 404, readable |-> FALSE, body |-> NoBody],
    [rejected |-> FALSE, status |-> 204, readable |-> FALSE, body |-> NoBody] }

NoFetch == [rejected |-> FALSE, status |-> 0, readable |-> FALSE, body |-> NoBody]

\* response.ok
ResponseOk(status) == status >= 200 /\ status <= 299

\* { action: 'wait' }
Wait == [action |-> "wait", params |-> "undefined"]

\* a call of getEnemyAIAction: pc is where it stands ("fetch" and "json" are
\* its two awaits), fetched what fetch() settled to, promise the state of the
\* promise it returned and value what the promise resolved to
RemoteInit ==
  [pc |-> "idle", fetched |-> NoFetch, promise |-> "none", value |-> NoBody]

GetEnemyAIActionReturn(r, value) ==
  [r EXCEPT !.pc = "settled", !.promise = "resolved", !.value = value]

\* a catch block that throws the error again, as generateTextWithAI has it
GetEnemyAIActionRethrow(r) ==
  [r EXCEPT !.pc = "settled", !.promise = "rejected", !.value = NoBody]

\* the catch block
GetEnemyAIActionCatch(r) == GetEnemyAIActionReturn(r, Wait)

\* from the call to the first await
GetEnemyAIActionStart(r) ==
  [r EXCEPT !.pc = "fetch", !.fetched = NoFetch, !.promise = "pending",
            !.value = NoBody]

\* from the first await, settled to fetched, to the second
GetEnemyAIActionFetched(r, fetched) ==
  LET r1 == [r EXCEPT !.fetched = fetched]
  IN  IF fetched.rejected THEN GetEnemyAIActionCatch(r1)
      ELSE IF ~ResponseOk(fetched.status) THEN GetEnemyAIActionReturn(r1, Wait)
      ELSE [r1 EXCEPT !.pc = "json"]

\* from the second await, response.json(), to the end
GetEnemyAIActionParsed(r) ==
  IF ~r.fetched.readable THEN GetEnemyAIActionCatch(r)
  ELSE GetEnemyAIActionReturn(r, [action |-> r.fetched.body.action,
                                  params |-> r.fetched.body.params])

(***************************************************************************)
(* The environment of a run: the keys whose JustDown (isDown for A, D, G,  *)
(* J) may read true in a frame (one per frame), the requests the AI may    *)
(* make, the frame deltas, what the physics step may report for the two    *)
(* bodies and whether the fighters may be close enough for a live hitbox   *)
(* to overlap the opponent's body.  With fsm the AI controller runs in     *)
(* full instead of being reduced to its requests.  With placed the run     *)
(* follows the fighters' places (the physics step reports one of places,   *)
(* once and for all with still) and the overlaps are computed from them.   *)
(* horizon is the time at which the frame clock stops.                     *)
(***************************************************************************)
Grounded == [blockedDown |-> TRUE,  vyUp |-> FALSE, vxFast |-> FALSE]
Rising   == [blockedDown |-> FALSE, vyUp |-> TRUE,  vxFast |-> FALSE]
Falling  == [blockedDown |-> FALSE, vyUp |-> FALSE, vxFast |-> FALSE]

EnemyStanding ==
  [blockedDown |-> TRUE,  vyUp |-> FALSE, speed |-> 0, x |-> EnemyStartX]
EnemyDashing ==
  [blockedDown |-> TRUE,  vyUp |-> FALSE, speed |-> 2, x |-> EnemyStartX]
\* the distance asked of moveLeftBy() and moveRightBy()
MovePixels == 100

\* standing MovePixels to the left of the starting place
EnemyAdvanced ==
  [blockedDown |-> TRUE,  vyUp |-> FALSE, speed |-> 0, x |-> EnemyStartX - MovePixels]
EnemyAirborne ==
  [blockedDown |-> FALSE, vyUp |-> FALSE, speed |-> 0, x |-> EnemyStartX]

(***************************************************************************)
(* The state machine.  controller holds the fields of the enemy's AI       *)
(* controller; the player's sprite is at (offset, lift) from the enemy's.  *)
(* phase is "events" between FrameStart and the                            *)
(* frame's GameScene.update and "frame" after it.  The remaining variables *)
(* record the run: last is the step just taken, press the last accepted    *)
(* counter-dodge press made under a warning (stage follows the telegraphed *)
(* attack: "warned" until the warning tween completes, "attacking" from    *)
(* there until the enemy announces its next attack; executed is the time   *)
(* at which the tween completed and dodged the time at which the queued    *)
(* dodge started), combo the last                                          *)
(* primary-punch press that started Punch at once (at its time, clean      *)
(* until the next primary-punch press, gap the time from it to that next   *)
(* press) and jump the last jump press that found no jump to perform (at   *)
(* its time, gap the time from it to the tick on which the player landed,   *)
(* count the jumps performed since the last tick that found the player on  *)
(* the ground, that tick's own jump included) and warn the last accepted   *)
(* direct call of the enemy's punch() or sidekick() (at its time, type the *)
(* attack asked for, clean until the next takeDamage call on the enemy,    *)
(* started the time at which the enemy entered Attacking for it) and       *)
(* track the enemy's movement calls and the AI controller's attack calls.  *)
(* A time of -1 stands for none.  remote is the call of getEnemyAIAction   *)
(* in flight, if any.                                                      *)
(***************************************************************************)
VARIABLES player, enemy, controller, remote, booster, offset, lift, now,
          delta, gameEnded, phase, last, press, combo, jump, warn, track

vars == <<player, enemy, controller, remote, booster, offset, lift, now,
          delta, gameEnded, phase, last, press, combo, jump, warn, track>>

History == <<press, combo, jump, warn, track>>

\* ok is the value a call returned, variance the distance variance the AI
\* controller drew; of a run that follows the fighters' places, hitbox holds
\* the rectangles the combat checks of the update got from getAttackHitbox(),
\* checked the defenders whose bounds they compared with a hitbox and struck
\* the defenders on whom they called takeDamage
NoStep ==
  [ op |-> "create", key |-> "none", overlap |-> FALSE, amount |-> 0, ok |-> FALSE,
    variance |-> 0, hitbox |-> [player |-> NoRectangle, enemy |-> NoRectangle],
    checked |-> {}, struck |-> {} ]

\* the player is created at x = 100, the enemy at x = GAME_WIDTH - 100
StartOffset == 100 - (GAME_WIDTH - 100)

\* moved is the last call of the enemy's movement interface ("controller"
\* once the AI controller makes the calls), since the tick delta the AI
\* controller has accumulated since its last accepted attack call, gap that
\* sum at the last accepted attack call, from the state the AI controller
\* was in before its last change of state, stale the pending setTimeout
\* callbacks of the controller that have seen it outside the Attack state,
\* edge the states before and after the controller's last run of
\* checkStateTransitions and executeStateBehavior, hits the number of ticks
\* on which the player's (the enemy's) latest attack has taken health from
\* the other fighter
NoTrack ==
  [moved |-> "none", since |-> -1, gap |-> -1, from |-> "none", stale |-> {},
   edge |-> <<"none", "none">>, hits |-> [player |-> 0, enemy |-> 0]]

NoWarning ==
  [at |-> -1, type |-> NULL, clean |-> FALSE, started |-> -1, still |-> FALSE]

\* PowerBooster (src/src/entities/PowerBooster.ts): the static flag, the time
\* at which the pending revert of applyPowerBoost fires (-1 when none is
\* pending) and the boosters of the scene that have been collected
BoosterInit == [isPlayerPoweredUp |-> FALSE, revertDue |-> -1, isCollected |-> {}]

\* the scene after create(); the healths are full, or what earlier hits left
Start(playerHealths, enemyHealths) ==
  /\ \E h \in playerHealths : player = [PlayerInit EXCEPT !.currentHealth = h]
  /\ \E h \in enemyHealths : enemy = [EnemyInit EXCEPT !.currentHealth = h]
  /\ controller = AIInit
  /\ remote = RemoteInit
  /\ booster = BoosterInit
  /\ offset = StartOffset
  /\ lift = 0
  /\ now = 0
  /\ delta = TickMs
  /\ gameEnded = FALSE
  /\ phase = "frame"
  /\ last = NoStep
  /\ press = [at |-> -1, T |-> 0, stage |-> "none", executed |-> -1, dodged |-> -1]
  /\ combo = [at |-> -1, clean |-> FALSE, gap |-> -1]
  /\ jump = [at |-> -1, gap |-> -1, count |-> 0]
  /\ warn = NoWarning
  /\ track = NoTrack

\* a scheduler event of the current frame is still to be delivered
EventDue ==
  \/ PlayerAnimDue(player)
  \/ EnemyAnimDue(enemy)
  \/ EnemyWarningDue(enemy, now)
  \/ (player.dodgeDue >= 0 /\ now >= player.dodgeDue)
  \/ \E t \in controller.timeouts : now > t.due

\* the game loop's step: the clock, the animation clocks and the physics
\* step (which is paused once the game has ended)
FrameStart(env) ==
  /\ phase = "frame"
  /\ \E d \in env.deltas, pb \in env.playerBodies, eb \in env.enemyBodies :
       /\ now + d <= env.horizon
       /\ now' = now + d
       /\ delta' = d
       /\ player' = PlayerAnimAdvance(
                      IF gameEnded THEN player ELSE [player EXCEPT !.body = pb], d)
       /\ enemy' = EnemyAnimAdvance(
                     IF gameEnded THEN enemy ELSE [enemy EXCEPT !.body = eb], d)
  /\ IF gameEnded \/ (env.still /\ now > 0) THEN UNCHANGED <<offset, lift>>
     ELSE \E place \in env.places : offset' = place[1] /\ lift' = place[2]
  /\ phase' = "events"
  /\ last' = [NoStep EXCEPT !.op = "step"]
  /\ UNCHANGED <<booster, remote, controller, gameEnded, History>>

PlayerAnimationCompleteEvent ==
  /\ phase = "events"
  /\ PlayerAnimDue(player)
  /\ player' = PlayerAnimationComplete(player)
  /\ last' = [NoStep EXCEPT !.op = "Player.animationcomplete"]
  /\ UNCHANGED <<booster, remote, enemy, controller, offset, lift, now, delta, gameEnded, phase, History>>

EnemyAnimationCompleteEvent ==
  /\ phase = "events"
  /\ EnemyAnimDue(enemy)
  /\ enemy' = EnemyAnimationComplete(enemy)
  /\ last' = [NoStep EXCEPT !.op = "Enemy.animationcomplete"]
  /\ UNCHANGED <<booster, remote, player, controller, offset, lift, now, delta, gameEnded, phase, History>>

\* the warning tween's onComplete
WarningTweenComplete ==
  /\ phase = "events"
  /\ EnemyWarningDue(enemy, now)
  /\ enemy' = EnemyWarningComplete(enemy)
  /\ press' = IF press.stage = "warned"
              THEN [press EXCEPT !.stage = "attacking", !.executed = now]
              ELSE press
  /\ warn' = IF warn.at >= 0 /\ warn.started < 0 /\ enemy'.currentState = "ATTACKING"
             THEN [warn EXCEPT !.started = now] ELSE warn
  /\ last' = [NoStep EXCEPT !.op = "Enemy.warningComplete"]
  /\ UNCHANGED <<booster, remote, player, controller, offset, lift, now, delta, gameEnded, phase, combo, jump, track>>

\* a setTimeout callback of the AI controller; it may run as soon as its time
\* has come and has run before the update of any later frame
AITimeout ==
  /\ phase = "events"
  /\ \E t \in controller.timeouts :
       /\ now >= t.due
       /\ \A u \in controller.timeouts : t.due <= u.due
       /\ LET w == AITimeoutCallback([ai |-> controller, enemy |-> enemy], t)
          IN  controller' = w.ai /\ enemy' = w.enemy
  /\ track' = [track EXCEPT
                 !.from = IF controller'.currentState # controller.currentState
                          THEN controller.currentState ELSE @,
                 !.stale = IF controller'.currentState # "ATTACK"
                           THEN controller'.timeouts
                           ELSE @ \cap controller'.timeouts]
  /\ last' = [NoStep EXCEPT !.op = "AI.timeout"]
  /\ UNCHANGED <<booster, remote, player, offset, lift, now, delta, gameEnded, phase, press, combo, jump, warn>>

\* the delayedCall of queueCounterDodge
CounterDodgeTimer ==
  /\ phase = "events"
  /\ player.dodgeDue >= 0
  /\ now >= player.dodgeDue
  /\ \E rnd \in 0..2 :
       player' = PlayerPerformCounterDodge([player EXCEPT !.dodgeDue = -1], rnd)
  /\ press' = [press EXCEPT !.dodged = now]
  /\ last' = [NoStep EXCEPT !.op = "Player.counterDodgeTimer"]
  /\ UNCHANGED <<booster, remote, enemy, controller, offset, lift, now, delta, gameEnded, phase, combo, jump, warn, track>>

\* the stages of player.update() in the current frame, for the key read
Stages(key, rnd) ==
  PlayerUpdateStages(player, [key |-> key, rnd |-> rnd], delta,
                     IsAnyEnemyShowingWarning(enemy),
                     GetTimeUntilEnemyAttack(enemy, now), now)

\* handleCounterDodge reads the key and finds it pressed
CounterDodgeAccepted(key, st) ==
  key = "U" /\ ~PlayerCounterDodgeGuard(st.atCounterDodge)

\* handleAttack starts Punch at once on this frame's primary-punch press
PunchStarted(key, st) ==
  /\ key = "C"
  /\ st.atAttack.currentState \notin {"HURT", "ATTACKING"}
  /\ PlayerIsOnGround(st.atAttack)
  /\ ~PlayerComboReady(st.atAttack)

\* handleJump performs a jump
JumpFired(st) == st.jumped

\* the player, out of jumps and with a jump press pending, is on the ground
\* again as this frame's update begins
Landing == jump.at >= 0 /\ player.jumpsRemaining = 0 /\ player.body.blockedDown

\* GameScene.update() while the game runs
GameSceneUpdate(env) ==
  /\ phase = "events"
  /\ ~EventDue
  /\ ~gameEnded
  /\ \E key \in env.keys :
       \E st0 \in {Stages(key, 0)} :
       LET accepted == CounterDodgeAccepted(key, st0)
           rnds == IF accepted /\ st0.afterCounterDodge.currentState = "DODGING"
                   THEN 0..2 ELSE {0}
       IN  \E rnd \in rnds :
       \E st \in {IF rnd = 0 THEN st0 ELSE Stages(key, rnd)} :
       \E p1 \in {st.done} :
       \E e1 \in {EnemyUpdate(enemy, [key |-> key, rnd |-> rnd], delta,
                               PlayerCounterDodgeGuard(st.atCounterDodge), now)} :
       LET ais == IF ~PlayerIsDead(p1) /\ EnemyCanAttack(e1)
                  THEN env.ais ELSE {"none"}
           w1 == [ai |-> controller, enemy |-> e1]
           rolls == IF env.fsm /\ ~EnemyIsDead(e1)
                    THEN AIRolls(w1, p1, delta, offset) ELSE {NoRoll}
       IN  \E ai \in ais, roll \in rolls :
       \E w2 \in {IF ~env.fsm
                   THEN [w1 EXCEPT !.enemy = AIControllerUpdate(e1, p1, ai, now)]
                   ELSE IF EnemyIsDead(e1) THEN w1
                   ELSE EnemyAIControllerUpdate(w1, p1, delta, offset, roll, now)} :
       \E e2 \in {w2.enemy}, hitboxP \in {PlayerGetAttackHitbox(p1, offset, lift)},
          checkedE \in {PlayerHitboxLive(p1) /\ ~EnemyDamageIgnored(w2.enemy)} :
       LET ovPs == IF ~checkedE THEN {FALSE}
                   ELSE IF env.placed
                   THEN {HitboxOverlaps(hitboxP, EnemyBody, 0, 0)}
                   ELSE env.overlaps
       IN  \E ovP \in ovPs :
       \E e3 \in {CheckPlayerAttacks(p1, e2, ovP)} :
       \E hitboxE \in {EnemyGetAttackHitbox(e3, 0, 0)},
          liveE \in {EnemyHitboxLive(e3) /\ ~EnemyIsDead(e3)} :
       LET ovEs == IF ~liveE THEN {FALSE}
                   ELSE IF env.placed
                   THEN {HitboxOverlaps(hitboxE, PlayerBody, offset, lift)}
                   ELSE env.overlaps
       IN  \E ovE \in ovEs :
       \E p2 \in {CheckEnemyAttacks(p1, e3, ovE)} :
       LET open == ~PlayerIsDead(p1) /\ ~p1.isInvincible
           checkedP == open /\ liveE
           seen == IF ~env.placed THEN NoStep
                   ELSE [NoStep EXCEPT
                           !.hitbox = [player |-> hitboxP,
                                       enemy |-> IF checkedP THEN hitboxE
                                                 ELSE NoRectangle],
                           !.checked = (IF checkedE THEN {"enemy"} ELSE {})
                                         \cup (IF checkedP THEN {"player"} ELSE {}),
                           !.struck = (IF checkedE /\ ovP THEN {"enemy"} ELSE {})
                                        \cup (IF checkedP /\ ovE THEN {"player"}
                                              ELSE {})]
       IN  /\ player' = p2
           /\ enemy' = e3
           /\ controller' = w2.ai
           /\ gameEnded' = CheckDeath(gameEnded, p2, e3)
           /\ last' = [seen EXCEPT !.op = "update", !.key = key, !.overlap = ovE,
                                   !.variance = roll.variance]
           /\ press' =
                IF accepted /\ IsAnyEnemyShowingWarning(enemy)
                THEN [at |-> now, T |-> GetTimeUntilEnemyAttack(enemy, now),
                      stage |-> "warned", executed |-> -1,
                      dodged |-> IF st.afterCounterDodge.currentState = "DODGING"
                                 THEN now ELSE -1]
                ELSE IF press.stage = "attacking" /\ EnemyIsShowingWarning(e3)
                THEN [press EXCEPT !.stage = "over"]
                ELSE press
           /\ combo' =
                IF key # "C" THEN combo
                ELSE LET gap == IF combo.clean THEN now - combo.at ELSE -1
                     IN  IF PunchStarted(key, st)
                         THEN [at |-> now, clean |-> TRUE, gap |-> gap]
                         ELSE [at |-> combo.at, clean |-> FALSE, gap |-> gap]
           /\ jump' =
                LET since == IF st.atJump.body.blockedDown THEN 0 ELSE jump.count
                    count == IF JumpFired(st) THEN since + 1 ELSE since
                IN  IF key = "SPACE"
                    THEN [at |-> IF JumpFired(st) THEN -1 ELSE now, gap |-> -1,
                          count |-> count]
                    ELSE IF Landing
                    THEN [at |-> -1, gap |-> now - jump.at, count |-> count]
                    ELSE [jump EXCEPT !.count = count]
           /\ track' =
                LET ticked == env.fsm /\ ~EnemyIsDead(e1) /\ ~PlayerIsDead(p1)
                    attacked == /\ ticked
                                /\ ~EnemyIsShowingWarning(e1)
                                /\ EnemyIsShowingWarning(e2)
                    sum == IF ticked /\ track.since >= 0
                           THEN track.since + delta ELSE track.since
                IN  [moved |-> IF env.fsm THEN "controller" ELSE track.moved,
                     since |-> IF attacked THEN 0 ELSE sum,
                     gap |-> IF attacked THEN sum ELSE track.gap,
                     from |-> IF w2.ai.currentState # controller.currentState
                              THEN controller.currentState ELSE track.from,
                     stale |-> (IF w2.ai.currentState # "ATTACK"
                                THEN controller.timeouts ELSE track.stale)
                                 \cap w2.ai.timeouts,
                     edge |-> IF ticked
                              THEN <<controller.currentState, w2.ai.currentState>>
                              ELSE track.edge,
                     hits |->
                       [player |-> (IF p1.currentState = "ATTACKING" /\ p1.animT = 0
                                    THEN 0 ELSE track.hits.player)
                                     + (IF e3.currentHealth < e2.currentHealth
                                        THEN 1 ELSE 0),
                        enemy |-> (IF e3.currentState = "ATTACKING" /\ e3.animT = 0
                                   THEN 0 ELSE track.hits.enemy)
                                    + (IF p2.currentHealth < p1.currentHealth
                                       THEN 1 ELSE 0)]]
  /\ phase' = "frame"
  /\ UNCHANGED <<booster, remote, offset, lift, now, delta, warn>>

\* update() returns at once when the game has ended
GameSceneUpdateEnded ==
  /\ phase = "events"
  /\ ~EventDue
  /\ gameEnded
  /\ phase' = "frame"
  /\ last' = [NoStep EXCEPT !.op = "update"]
  /\ UNCHANGED <<booster, remote, player, enemy, controller, offset, lift, now, delta, gameEnded, History>>

\* direct calls of the combatants' takeDamage(amount, attackerX)
PlayerTakeDamageCall(amounts) ==
  /\ phase = "frame"
  /\ \E a \in amounts :
       /\ player' = PlayerTakeDamage(player, a)
       /\ last' = [NoStep EXCEPT !.op = "Player.takeDamage", !.amount = a]
  /\ UNCHANGED <<booster, remote, enemy, controller, offset, lift, now, delta, gameEnded, phase, History>>

EnemyTakeDamageCall(amounts, attackTypes) ==
  /\ phase = "frame"
  /\ \E a \in amounts, type \in attackTypes :
       /\ enemy' = EnemyTakeDamage(enemy, a, type)
       /\ last' = [NoStep EXCEPT !.op = "Enemy.takeDamage", !.amount = a]
  /\ warn' = [warn EXCEPT !.clean = FALSE]
  /\ UNCHANGED <<booster, remote, player, controller, offset, lift, now, delta, gameEnded, phase, press, combo, jump, track>>

\* direct calls of the enemy's punch() and sidekick(), as the AI controller
\* makes them
EnemyPunchCall ==
  /\ phase = "frame"
  /\ enemy' = EnemyPunch(enemy, now)
  /\ last' = [NoStep EXCEPT !.op = "Enemy.punch", !.ok = EnemyAttackAccepted(enemy)]
  /\ warn' = IF EnemyAttackAccepted(enemy)
             THEN [at |-> now, type |-> "punch", clean |-> TRUE, started |-> -1,
                  still |-> EnemyStandsStill(enemy)]
             ELSE warn
  /\ UNCHANGED <<booster, remote, player, controller, offset, lift, now, delta, gameEnded, phase, press, combo, jump, track>>

EnemySidekickCall ==
  /\ phase = "frame"
  /\ enemy' = EnemySidekick(enemy, now)
  /\ last' = [NoStep EXCEPT !.op = "Enemy.sidekick",
                            !.ok = EnemyAttackAccepted(enemy)]
  /\ warn' = IF EnemyAttackAccepted(enemy)
             THEN [at |-> now, type |-> "sidekick", clean |-> TRUE, started |-> -1,
                   still |-> EnemyStandsStill(enemy)]
             ELSE warn
  /\ UNCHANGED <<booster, remote, player, controller, offset, lift, now, delta, gameEnded, phase, press, combo, jump, track>>

\* direct calls of the enemy's movement interface
EnemyStartMovingLeftCall ==
  /\ phase = "frame"
  /\ enemy' = EnemyStartMovingLeft(enemy)
  /\ track' = [track EXCEPT !.moved = "startMovingLeft"]
  /\ last' = [NoStep EXCEPT !.op = "Enemy.startMovingLeft"]
  /\ UNCHANGED <<booster, remote, player, controller, offset, lift, now, delta, gameEnded, phase, press, combo, jump, warn>>

EnemyStartMovingRightCall ==
  /\ phase = "frame"
  /\ enemy' = EnemyStartMovingRight(enemy)
  /\ track' = [track EXCEPT !.moved = "startMovingRight"]
  /\ last' = [NoStep EXCEPT !.op = "Enemy.startMovingRight"]
  /\ UNCHANGED <<booster, remote, player, controller, offset, lift, now, delta, gameEnded, phase, press, combo, jump, warn>>

EnemyStopMovingCall ==
  /\ phase = "frame"
  /\ enemy' = EnemyStopMoving(enemy)
  /\ track' = [track EXCEPT !.moved = "stopMoving"]
  /\ last' = [NoStep EXCEPT !.op = "Enemy.stopMoving"]
  /\ UNCHANGED <<booster, remote, player, controller, offset, lift, now, delta, gameEnded, phase, press, combo, jump, warn>>

EnemyMoveLeftByCall ==
  /\ phase = "frame"
  /\ enemy' = EnemyMoveLeftBy(enemy, MovePixels)
  /\ track' = [track EXCEPT !.moved = "moveLeftBy"]
  /\ last' = [NoStep EXCEPT !.op = "Enemy.moveLeftBy"]
  /\ UNCHANGED <<booster, remote, player, controller, offset, lift, now, delta, gameEnded, phase, press, combo, jump, warn>>

EnemyMoveRightByCall ==
  /\ phase = "frame"
  /\ enemy' = EnemyMoveRightBy(enemy, MovePixels)
  /\ track' = [track EXCEPT !.moved = "moveRightBy"]
  /\ last' = [NoStep EXCEPT !.op = "Enemy.moveRightBy"]
  /\ UNCHANGED <<booster, remote, player, controller, offset, lift, now, delta, gameEnded, phase, press, combo, jump, warn>>

\* getEnemyAIAction(gameState) is called, between two frames; its
\* continuations run between frames as well
GetEnemyAIActionCall ==
  /\ phase = "frame"
  /\ remote.pc \in {"idle", "settled"}
  /\ remote' = GetEnemyAIActionStart(remote)
  /\ last' = [NoStep EXCEPT !.op = "getEnemyAIAction"]
  /\ UNCHANGED <<booster, player, enemy, controller, offset, lift, now, delta, gameEnded, phase, History>>

\* fetch() settles
FetchSettles ==
  /\ phase = "frame"
  /\ remote.pc = "fetch"
  /\ \E llm \in LLMs :
       \E fetched \in Fetches(ServerEnemyAction(llm)) :
         remote' = GetEnemyAIActionFetched(remote, fetched)
  /\ last' = [NoStep EXCEPT !.op = "fetch"]
  /\ UNCHANGED <<booster, player, enemy, controller, offset, lift, now, delta, gameEnded, phase, History>>

\* response.json() settles
JsonSettles ==
  /\ phase = "frame"
  /\ remote.pc = "json"
  /\ remote' = GetEnemyAIActionParsed(remote)
  /\ last' = [NoStep EXCEPT !.op = "response.json"]
  /\ UNCHANGED <<booster, player, enemy, controller, offset, lift, now, delta, gameEnded, phase, History>>

(***************************************************************************)
(* The fight: the enemy attacks, the player counter-dodges and is hurt;    *)
(* both stand on the ground.                                               *)
(***************************************************************************)
FightEnv ==
  [ keys |-> {"none", "U", "P"},
    ais |-> AIChoices,
    deltas |-> {2 * TickMs},
    playerBodies |-> {Grounded},
    enemyBodies |-> {EnemyStanding, EnemyDashing},
    overlaps |-> BOOLEAN,
    fsm |-> FALSE,
    placed |-> FALSE,
    still |-> FALSE,
    places |-> {<<StartOffset, 0>>},
    horizon |-> MaxNow ]

Init == Start({PLAYER_MAX_HEALTH, ENEMY_DAMAGE_PUNCH}, {ENEMY_MAX_HEALTH})

Next ==
  \/ FrameStart(FightEnv)
  \/ PlayerAnimationCompleteEvent
  \/ EnemyAnimationCompleteEvent
  \/ WarningTweenComplete
  \/ CounterDodgeTimer
  \/ GameSceneUpdate(FightEnv)
  \/ GameSceneUpdateEnded

Spec == Init /\ [][Next]_vars

(***************************************************************************)
(* The player's attacks: punches and uppercuts on the ground, out of the    *)
(* enemy's reach.                                                          *)
(***************************************************************************)
ComboEnv ==
  [ keys |-> {"none", "C", "V"},
    ais |-> {"none"},
    deltas |-> {TickMs},
    playerBodies |-> {Grounded},
    enemyBodies |-> {EnemyStanding},
    overlaps |-> {FALSE},
    fsm |-> FALSE,
    placed |-> FALSE,
    still |-> FALSE,
    places |-> {<<StartOffset, 0>>},
    horizon |-> MaxNow ]

InitCombo == Start({PLAYER_MAX_HEALTH}, {ENEMY_MAX_HEALTH})

NextCombo ==
  \/ FrameStart(ComboEnv)
  \/ PlayerAnimationCompleteEvent
  \/ GameSceneUpdate(ComboEnv)

SpecCombo == InitCombo /\ [][NextCombo]_vars

(***************************************************************************)
(* Jumping: the player jumps, rises, falls and lands.                      *)
(***************************************************************************)
JumpEnv ==
  [ keys |-> {"none", "SPACE"},
    ais |-> {"none"},
    deltas |-> {TickMs, 2 * TickMs},
    playerBodies |-> {Grounded, Rising, Falling},
    enemyBodies |-> {EnemyStanding},
    overlaps |-> {FALSE},
    fsm |-> FALSE,
    placed |-> FALSE,
    still |-> FALSE,
    places |-> {<<StartOffset, 0>>},
    horizon |-> MaxNow ]

NextJump ==
  \/ FrameStart(JumpEnv)
  \/ PlayerAnimationCompleteEvent
  \/ GameSceneUpdate(JumpEnv)

SpecJump == InitCombo /\ [][NextJump]_vars

(***************************************************************************)
(* takeDamage called with any amount at any time between two frames, on    *)
(* fighters that stand still.                                              *)
(***************************************************************************)
Amounts == {0, DAMAGE_PUNCH, ENEMY_MAX_HEALTH + PLAYER_MAX_HEALTH}

AttackTypes == {NULL, "punch", "uppercut"}

QuietEnv ==
  [ keys |-> {"none"},
    ais |-> {"none"},
    deltas |-> {2 * TickMs},
    playerBodies |-> {Grounded},
    enemyBodies |-> {EnemyStanding},
    overlaps |-> {FALSE},
    fsm |-> FALSE,
    placed |-> FALSE,
    still |-> FALSE,
    places |-> {<<StartOffset, 0>>},
    horizon |-> MaxNow ]

InitAPI == Start({PLAYER_MAX_HEALTH}, {ENEMY_MAX_HEALTH, DAMAGE_UPPERCUT})

NextAPI ==
  \/ FrameStart(QuietEnv)
  \/ PlayerAnimationCompleteEvent
  \/ EnemyAnimationCompleteEvent
  \/ GameSceneUpdate(QuietEnv)
  \/ GameSceneUpdateEnded
  \/ PlayerTakeDamageCall(Amounts)
  \/ EnemyTakeDamageCall(Amounts, AttackTypes)

SpecAPI == InitAPI /\ [][NextAPI]_vars

(***************************************************************************)
(* The enemy's attack calls: punch() and sidekick() are called on the      *)
(* enemy in any of its states, between frames of a quiet scene, and hits   *)
(* land on it.                                                             *)
(***************************************************************************)
EnemyEnv ==
  [ keys |-> {"none"},
    ais |-> {"none"},
    deltas |-> {2 * TickMs},
    playerBodies |-> {Grounded},
    enemyBodies |-> {EnemyStanding, EnemyDashing},
    overlaps |-> {FALSE},
    fsm |-> FALSE,
    placed |-> FALSE,
    still |-> FALSE,
    places |-> {<<StartOffset, 0>>},
    horizon |-> MaxNow ]

Blows == {DAMAGE_PUNCH, ENEMY_MAX_HEALTH}

BlowTypes == {NULL, "punch"}

NextEnemy ==
  \/ FrameStart(EnemyEnv)
  \/ EnemyAnimationCompleteEvent
  \/ WarningTweenComplete
  \/ GameSceneUpdate(EnemyEnv)
  \/ GameSceneUpdateEnded
  \/ EnemyPunchCall
  \/ EnemySidekickCall
  \/ EnemyTakeDamageCall(Blows, BlowTypes)

SpecEnemy == InitCombo /\ [][NextEnemy]_vars

(***************************************************************************)
(* The AI controller drives the enemy: the player stands still and presses *)
(* no key, the enemy is found at any of a few places from frame to frame.  *)
(***************************************************************************)
AIEnv ==
  [ keys |-> {"none"},
    ais |-> {"none"},
    deltas |-> {4 * TickMs},
    playerBodies |-> {Grounded},
    enemyBodies |-> {EnemyStanding},
    overlaps |-> {FALSE},
    fsm |-> TRUE,
    placed |-> TRUE,
    still |-> FALSE,
    places |-> {<<-2500, 0>>, <<-130, 0>>, <<-100, 0>>},
    horizon |-> AIMaxNow ]

NextAI ==
  \/ FrameStart(AIEnv)
  \/ EnemyAnimationCompleteEvent
  \/ WarningTweenComplete
  \/ AITimeout
  \/ GameSceneUpdate(AIEnv)

SpecAI == InitCombo /\ [][NextAI]_vars

(***************************************************************************)
(* The fighters within reach of each other: both attack, from places at    *)
(* which a hitbox touches the other's body bounds at an edge and from      *)
(* places at which it overlaps them.  In a place <<offset, lift>> the      *)
(* player's sprite is at (offset, lift) from the enemy's.                  *)
(***************************************************************************)
BrawlEnv ==
  [ keys |-> {"none", "C"},
    ais |-> AIChoices,
    deltas |-> {2 * TickMs},
    playerBodies |-> {Grounded},
    enemyBodies |-> {EnemyStanding, EnemyDashing},
    overlaps |-> {FALSE},
    fsm |-> FALSE,
    placed |-> TRUE,
    still |-> TRUE,
    places |-> {<<-150, 0>>, <<-146, 0>>, <<-100, 0>>, <<-100, -88>>},
    horizon |-> BrawlMaxNow ]

NextBrawl ==
  \/ FrameStart(BrawlEnv)
  \/ PlayerAnimationCompleteEvent
  \/ EnemyAnimationCompleteEvent
  \/ WarningTweenComplete
  \/ GameSceneUpdate(BrawlEnv)

SpecBrawl == InitCombo /\ [][NextBrawl]_vars

(***************************************************************************)
(* The remote AI decision service is asked for the enemy's action between  *)
(* the frames of a quiet scene.                                            *)
(***************************************************************************)
NextRemote ==
  \/ FrameStart(QuietEnv)
  \/ GameSceneUpdate(QuietEnv)
  \/ GetEnemyAIActionCall
  \/ FetchSettles
  \/ JsonSettles

SpecRemote == InitCombo /\ [][NextRemote]_vars

(***************************************************************************)
(* The enemy test keys are pressed while the AI controller drives the      *)
(* enemy, far from the player or within its reach.                         *)
(***************************************************************************)
EnemyTestKeys == {"G", "J", "Y", "U", "K"}

KeysEnv ==
  [ keys |-> {"none"} \cup EnemyTestKeys,
    ais |-> {"none"},
    deltas |-> {4 * TickMs},
    playerBodies |-> {Grounded},
    enemyBodies |-> {EnemyStanding},
    overlaps |-> {FALSE},
    fsm |-> TRUE,
    placed |-> TRUE,
    still |-> TRUE,
    places |-> {<<-2500, 0>>, <<-100, 0>>},
    horizon |-> MaxNow + 2 * TickMs ]

NextKeys ==
  \/ FrameStart(KeysEnv)
  \/ PlayerAnimationCompleteEvent
  \/ EnemyAnimationCompleteEvent
  \/ WarningTweenComplete
  \/ CounterDodgeTimer
  \/ AITimeout
  \/ GameSceneUpdate(KeysEnv)

SpecKeys == InitCombo /\ [][NextKeys]_vars

(***************************************************************************)
(* Properties                                                              *)
(***************************************************************************)

\* C1: a takeDamage call made while the combatant is invincible leaves its
\* health unchanged, for the player and for the enemy, whatever the amount.
C1_InvincibleTakesNoDamage ==
  [][ /\ (last'.op = "Player.takeDamage" /\ player.isInvincible)
           => player'.currentHealth = player.currentHealth
      /\ (last'.op = "Enemy.takeDamage" /\ enemy.isInvincible)
           => enemy'.currentHealth = enemy.currentHealth ]_vars

\* a positive amount was dealt to the living, invincible player and ignored
C1_Witness ==
  /\ last.op = "Player.takeDamage"
  /\ last.amount > 0
  /\ player.isInvincible
  /\ player.currentHealth > 0
  /\ player.invincibilityTimer < PLAYER_INVINCIBILITY_DURATION

\* C2: once a combatant's health has reached 0, every later takeDamage call
\* leaves its health at 0 and its state Dead.
C2_DeathIsIdempotent ==
  [][ /\ (last'.op = "Player.takeDamage" /\ player.currentHealth = 0)
           => (player'.currentHealth = 0 /\ player'.currentState = "DEAD")
      /\ (last'.op = "Enemy.takeDamage" /\ enemy.currentHealth = 0)
           => (enemy'.currentHealth = 0 /\ enemy'.currentState = "DEAD") ]_vars

\* C3: a combatant enters Dead when its health reaches 0 and is Dead in every
\* later state: no update, animation callback or timer changes its state.
C3_DeadIsFinal ==
  [][ /\ (player.currentHealth > 0 /\ player'.currentHealth = 0)
           => player'.currentState = "DEAD"
      /\ player.currentState = "DEAD" => player'.currentState = "DEAD"
      /\ (enemy.currentHealth > 0 /\ enemy'.currentHealth = 0)
           => enemy'.currentState = "DEAD"
      /\ enemy.currentState = "DEAD" => enemy'.currentState = "DEAD" ]_vars

\* C4: in every reachable state the player's health is within 0..100 and the
\* enemy's within 0..300.
C4_HealthInRange ==
  /\ 0 <= player.currentHealth /\ player.currentHealth <= PLAYER_MAX_HEALTH
  /\ 0 <= enemy.currentHealth /\ enemy.currentHealth <= ENEMY_MAX_HEALTH

\* a hit of more than the player's whole health has just left it at 0
C4_Witness ==
  /\ last.op = "Player.takeDamage"
  /\ last.amount > PLAYER_MAX_HEALTH
  /\ player.currentHealth = 0
  /\ player.invincibilityTimer = PLAYER_INVINCIBILITY_DURATION

\* C5: after an accepted counter-dodge press made under a warning, with T ms
\* left until the attack, the player is invincible in every state before
\* press-time + T + 600 ms.
C5_InvincibleThroughWindow ==
  (press.stage # "none" /\ now < press.at + press.T + COUNTER_DODGE_BUFFER)
    => player.isInvincible

\* the last update before the window closes: the attack's time is long past
C5_Witness ==
  /\ press.stage # "none"
  /\ press.T > 0
  /\ phase = "frame"
  /\ now < press.at + press.T + COUNTER_DODGE_BUFFER
  /\ now + 2 * TickMs >= press.at + press.T + COUNTER_DODGE_BUFFER
  /\ player.isInvincible

\* C6: after an accepted counter-dodge press made under a warning, on every
\* update in which the telegraphed attack's hitbox is live and overlaps the
\* player, the player is invincible and loses no health.
C6_TelegraphedAttackMisses ==
  [][ (/\ last'.op = "update"
       /\ press'.stage = "attacking"
       /\ EnemyHitboxLive(enemy')
       /\ last'.overlap)
      => /\ Stages(last'.key, 0).done.isInvincible
         /\ player'.currentHealth = player.currentHealth ]_vars

\* the telegraphed attack's live hitbox has just overlapped the dodging player
C6_Witness ==
  /\ last.op = "update"
  /\ press.stage = "attacking"
  /\ EnemyHitboxLive(enemy)
  /\ last.overlap
  /\ player.isInvincible
  /\ player.currentState = "DODGING"

\* C7: an accepted counter-dodge press made while no living enemy shows a
\* warning puts the player in Dodging in that update and leaves isInvincible
\* and invincibilityTimer as they were.
C7_PlainCounterDodge ==
  [][ (/\ last'.op = "update"
       /\ last'.key = "U"
       /\ ~gameEnded
       /\ ~IsAnyEnemyShowingWarning(enemy)
       /\ CounterDodgeAccepted("U", Stages("U", 0)))
      => LET st == Stages("U", 0)
         IN  /\ st.afterCounterDodge.currentState = "DODGING"
             /\ st.afterCounterDodge.isInvincible = st.atCounterDodge.isInvincible
             /\ st.afterCounterDodge.invincibilityTimer
                  = st.atCounterDodge.invincibilityTimer
             /\ player'.currentHealth = player.currentHealth
                  => /\ player'.currentState = "DODGING"
                     /\ player'.isInvincible = st.atCounterDodge.isInvincible
                     /\ player'.invincibilityTimer
                          = st.atCounterDodge.invincibilityTimer ]_vars

\* a press made without any warning so far has just started the dodge, and
\* the player is not invincible
C7_Witness ==
  /\ last.op = "update"
  /\ last.key = "U"
  /\ press.stage = "none"
  /\ player.currentState = "DODGING"
  /\ player.animT = 0
  /\ ~player.isInvincible

\* the player has just started Uppercut as the combo finisher
UppercutStarted(p) ==
  /\ p.currentState = "ATTACKING"
  /\ p.currentAttackType = "uppercut"
  /\ p.anim = "juan_uppercut"
  /\ p.animT = 0
  /\ p.comboCount = 0

\* the player has just started Punch and armed the combo
FreshPunch(p) ==
  /\ p.currentState = "ATTACKING"
  /\ p.currentAttackType = "punch"
  /\ p.anim = "juan_punch"
  /\ p.animT = 0
  /\ p.comboCount = 1
  /\ p.comboTimer = COMBO_WINDOW
  /\ p.comboDelayTimer = COMBO_MIN_DELAY

\* this update reads the next primary-punch press after the one that started
\* Punch, and the player stands on the ground
SecondPunchPress ==
  /\ last'.op = "update"
  /\ last'.key = "C"
  /\ ~gameEnded
  /\ combo.clean
  /\ PlayerIsOnGround(Stages("C", 0).atAttack)

\* C8 (as the code has it): the second primary-punch press, D ms after the
\* one that started Punch, starts Uppercut when 250 <= D < 800; from D = 800
\* on it starts a fresh Punch with the combo re-armed, unless an attack is
\* in progress.
C8_ComboWindow ==
  [][ SecondPunchPress
      => LET D == now - combo.at
         IN  /\ (D >= COMBO_MIN_DELAY /\ D < COMBO_WINDOW) => UppercutStarted(player')
             /\ (D >= COMBO_WINDOW
                   /\ Stages("C", 0).atAttack.currentState # "ATTACKING")
                  => FreshPunch(player') ]_vars

\* the second press came exactly COMBO_WINDOW ms after the first and has
\* started a fresh Punch
C8_Witness ==
  /\ last.op = "update"
  /\ last.key = "C"
  /\ combo.gap = COMBO_WINDOW
  /\ combo.at = now
  /\ FreshPunch(player)

\* C8: the second primary-punch press, D ms after the one that started
\* Punch, starts Uppercut when 250 <= D <= 800, and a fresh Punch with the
\* combo re-armed when D > 800.
C8_AsStated ==
  [][ SecondPunchPress
      => LET D == now - combo.at
         IN  /\ (D >= COMBO_MIN_DELAY /\ D <= COMBO_WINDOW) => UppercutStarted(player')
             /\ (D > COMBO_WINDOW
                   /\ Stages("C", 0).atAttack.currentState # "ATTACKING")
                  => FreshPunch(player') ]_vars

\* what an attack key buffers
BufferedFor(key, p) ==
  IF key = "V" THEN "uppercut"
  ELSE IF PlayerIsOnGround(p) THEN "punch" ELSE "aerial-punch"

\* C9: an attack press read while the player is Attacking, and not taken as
\* the combo finisher, is stored in bufferedAttack; when the completion
\* callback of the attack in progress fires with an attack buffered, the
\* player is left Attacking with currentAttackType the buffered type and
\* bufferedAttack cleared.
C9_BufferedAttackStarts ==
  [][ /\ (/\ last'.op = "update"
          /\ last'.key \in {"C", "V"}
          /\ ~gameEnded
          /\ Stages(last'.key, 0).atAttack.currentState = "ATTACKING"
          /\ ~(last'.key = "C" /\ PlayerComboReady(Stages("C", 0).atAttack)))
         => player'.bufferedAttack
              = BufferedFor(last'.key, Stages(last'.key, 0).atAttack)
      /\ (/\ last'.op = "Player.animationcomplete"
          /\ player.currentState = "ATTACKING"
          /\ player.bufferedAttack # NULL
          /\ \E i \in 1..Len(player.listeners) : player.listeners[i] = "attack")
         => /\ player'.currentState = "ATTACKING"
            /\ player'.currentAttackType = player.bufferedAttack
            /\ player'.bufferedAttack = NULL ]_vars

\* this update is the landing tick of a player who pressed jump in the air
\* with no jump left, and reads no new jump press
LandingTick ==
  /\ last'.op = "update"
  /\ last'.key # "SPACE"
  /\ ~gameEnded
  /\ Landing

\* the update has performed a jump from the ground
JumpedOnLanding(p) == p.jumpsRemaining = MAX_JUMPS - 1 /\ p.body.vyUp

\* C10 (as the code has it): for an airborne player with no jumps remaining,
\* a jump press read D ms before the landing tick triggers a jump on landing
\* exactly when D < 150.
C10_JumpBuffer ==
  [][ LandingTick
      => (JumpedOnLanding(player') <=> now - jump.at < JUMP_BUFFER_TIME) ]_vars

\* the press came two frames of TickMs before the landing tick and the
\* player has jumped on landing
C10_Witness ==
  /\ last.op = "update"
  /\ jump.gap = 2 * TickMs
  /\ JumpedOnLanding(player)

\* C10: a jump press read up to 150 ms (inclusive) before the landing tick
\* triggers a jump on landing, one read 151 ms or more before does not.
C10_AsStated ==
  [][ LandingTick
      => (JumpedOnLanding(player') <=> now - jump.at <= JUMP_BUFFER_TIME) ]_vars

\* C11: the player performs at most MAX_JUMPS jumps between two ticks that
\* find it on the ground, jumpsRemaining stays within 0..MAX_JUMPS, and every
\* update that finds the player on the ground resets jumpsRemaining to
\* MAX_JUMPS before the jump test (so it ends the tick at MAX_JUMPS, or one
\* less when that tick jumps).
C11_JumpsPerGroundContact ==
  /\ jump.count <= MAX_JUMPS
  /\ player.jumpsRemaining \in 0..MAX_JUMPS
  /\ (last.op = "update" /\ ~gameEnded /\ player.body.blockedDown)
       => player.jumpsRemaining = MAX_JUMPS - jump.count

\* the second jump since the last ground contact has used up the jumps
C11_Witness ==
  /\ last.op = "update"
  /\ last.key = "SPACE"
  /\ jump.count = MAX_JUMPS
  /\ player.jumpsRemaining = 0
  /\ ~player.body.blockedDown

\* the enemy as constructed: never hit and never asked to attack
FreshEnemy ==
  /\ warn.at < 0
  /\ enemy.currentHealth = ENEMY_MAX_HEALTH
  /\ ~enemy.isInvincible
  /\ enemy.currentAttackType = NULL

\* the last accepted direct call was punch() and no hit has landed since
CleanPunch == warn.at >= 0 /\ warn.type = "punch" /\ warn.clean

\* the course of a punch() call that nothing interrupts: a warning and no
\* attack before ATTACK_WARNING_DURATION has elapsed, the attack from the
\* first frame at or after it, and a hitbox on exactly the updates that find
\* enemy-punch on its 4th frame (a quarter to a third of a second into it)
PunchCourse ==
  CleanPunch =>
    /\ warn.started < 0
         => /\ enemy.currentState # "ATTACKING"
            /\ ~EnemyHitboxLive(enemy)
            /\ (now < warn.at + ATTACK_WARNING_DURATION
                  => EnemyIsShowingWarning(enemy))
            /\ (phase = "frame" => now < warn.at + ATTACK_WARNING_DURATION)
    /\ warn.started >= 0
         => /\ warn.started >= warn.at + ATTACK_WARNING_DURATION
            /\ warn.started - 2 * TickMs < warn.at + ATTACK_WARNING_DURATION
            /\ phase = "frame"
                 => EnemyHitboxLive(enemy)
                 <=> LET t == now - warn.started
                     IN  /\ enemy.currentState = "ATTACKING"
                         /\ 4 * t >= 1000
                         /\ 3 * t < 1000

EnemyBusy ==
  \/ enemy.currentState \in {"ATTACKING", "HURT"}
  \/ enemy.currentHealth <= 0
  \/ enemy.pendingAttack # NULL

\* C13: punch() and sidekick() called on an enemy that is Attacking, Hurt,
\* dead or already showing a warning return false and leave pendingAttack,
\* attackExecuteTime, currentState and currentAttackType as they were.
C13_RejectedAttackCall ==
  [][ (last'.op \in {"Enemy.punch", "Enemy.sidekick"} /\ EnemyBusy)
      => /\ ~last'.ok
         /\ enemy'.pendingAttack = enemy.pendingAttack
         /\ enemy'.attackExecuteTime = enemy.attackExecuteTime
         /\ enemy'.currentState = enemy.currentState
         /\ enemy'.currentAttackType = enemy.currentAttackType ]_vars

\* sidekick() has just been refused by an enemy whose punch is telegraphed
C13_Witness ==
  /\ last.op = "Enemy.sidekick"
  /\ ~last.ok
  /\ enemy.pendingAttack = "punch"
  /\ now > warn.at
  /\ now < enemy.attackExecuteTime

\* C14: an enemy whose health has reached 0 while its warning was active does
\* not enter Attacking, neither when the telegraph ends (the warning is
\* hidden and the attack is not performed) nor in any later step.
C14_DeadEnemyDropsAttack ==
  [][ /\ (enemy.currentHealth <= 0 /\ enemy.currentState # "ATTACKING")
           => enemy'.currentState # "ATTACKING"
      /\ (last'.op = "Enemy.warningComplete" /\ enemy.currentHealth <= 0)
           => /\ enemy'.currentAttackType = NULL
              /\ enemy'.pendingAttack = NULL
              /\ warn'.started < 0 ]_vars

\* the telegraph of an enemy killed during its warning has just ended
C14_Witness ==
  /\ last.op = "Enemy.warningComplete"
  /\ warn.at >= 0
  /\ ~warn.clean
  /\ warn.started < 0
  /\ enemy.currentHealth = 0
  /\ enemy.currentState # "ATTACKING"
  /\ enemy.pendingAttack = NULL

\* the enemy's attack input is blocked: canAttack() is false and handleAttack
\* ignores both attack keys
EnemyAttackBlocked ==
  /\ ~EnemyCanAttack(enemy)
  /\ \A key \in {"U", "K"} :
       EnemyHandleAttack(enemy, [key |-> key, rnd |-> 0], TRUE, now) = enemy

\* C15 (as the code has it): pendingAttack # null exactly when a warning
\* tween is active, and then the enemy's attack input is blocked; the input
\* is blocked exactly when a warning is pending or the enemy is Attacking,
\* Hurt or dead.
C15_WarningBlocksAttack ==
  /\ (enemy.pendingAttack # NULL) <=> (enemy.warningTween # NULL)
  /\ enemy.pendingAttack # NULL => EnemyAttackBlocked
  /\ EnemyAttackBlocked <=> EnemyBusy
  /\ EnemyAttackBlocked <=> ~EnemyCanAttack(enemy)

\* a telegraphed sidekick is pending, its tween runs and the input is blocked
C15_Witness ==
  /\ last.op = "update"
  /\ enemy.pendingAttack = "sidekick"
  /\ enemy.warningTween = "sidekick"
  /\ now < enemy.attackExecuteTime
  /\ EnemyAttackBlocked
  /\ enemy.currentState \notin {"ATTACKING", "HURT"}

\* C15: in every reachable state pendingAttack # null, a warning tween being
\* active and the enemy's attack input being blocked are equivalent.
C15_AsStated ==
  /\ (enemy.pendingAttack # NULL) <=> (enemy.warningTween # NULL)
  /\ (enemy.pendingAttack # NULL) <=> EnemyAttackBlocked

\* C16: a counter-dodge queued with T ms left until the enemy's attack is
\* scheduled for press-time + T: until then the dodge is pending; the
\* scheduled start puts the player in Dodging in the first frame at or after
\* press-time + T, which is the frame in which the telegraphed attack
\* executes; queued with T = 0 the dodge starts within the call.
C16_DodgeAtExecuteTime ==
  [][ /\ (press'.stage = "warned" /\ press'.dodged < 0)
           => /\ player'.counterDodgeQueued
              /\ player'.dodgeDue = press'.at + press'.T
              /\ player'.dodgeDue = enemy'.attackExecuteTime
              /\ IF phase' = "events" THEN now' - delta' < player'.dodgeDue
                                      ELSE now' < player'.dodgeDue
      /\ last'.op = "Player.counterDodgeTimer"
           => /\ player'.currentState = "DODGING"
              /\ now >= press.at + press.T
              /\ now - delta < press.at + press.T
              /\ \/ press.executed = now
                 \/ press.stage = "warned" /\ EnemyWarningDue(enemy, now)
      /\ (press'.dodged >= 0 /\ press'.executed >= 0)
           => press'.dodged = press'.executed
      /\ \A rnd \in 0..2 :
           PlayerQueueCounterDodge(player, 0, now, rnd).currentState = "DODGING" ]_vars

\* the queued dodge has started in the frame in which the telegraphed attack
\* executed, T ms after the press
C16_Witness ==
  /\ press.T > 0
  /\ press.dodged = press.at + press.T
  /\ press.executed = press.dodged
  /\ now = press.dodged
  /\ phase = "events"
  /\ player.currentState = "DODGING"
  /\ enemy.currentState = "ATTACKING"


(***************************************************************************)
(* C17: with the enemy 2500 px away from the player, the AI stays in Idle  *)
(* on every tick, for every value of the distance variance: no step that   *)
(* starts with the controller in Idle and ends with the fighters 2500 px   *)
(* apart takes the controller out of Idle.                                 *)
(***************************************************************************)
C17_FarEnemyStaysIdle ==
  [][(controller.currentState = "IDLE" /\ Abs(offset') = 2500)
       => controller'.currentState = "IDLE"]_vars

\* the controller has been in Idle since the round began, the last update
\* drew the largest variance with the enemy 2500 px away
C17_Witness ==
  /\ last.op = "update"
  /\ Abs(offset) = 2500
  /\ last.variance = DISTANCE_VARIANCE - 1
  /\ controller.currentState = "IDLE"
  /\ controller.stateTimer = now
  /\ now >= 12 * TickMs

\* GameScene.update runs the controller with the AI in Chase and the
\* fighters 100 px apart
ChaseTickAt100 ==
  /\ last'.op = "update"
  /\ ~gameEnded
  /\ ~EnemyIsDead(enemy)
  /\ ~PlayerIsDead(player)
  /\ controller.currentState = "CHASE"
  /\ Abs(offset) = 100

(***************************************************************************)
(* C18: with the enemy 100 px from the player, an update that finds the AI *)
(* in Chase moves it to Attack when the variance it draws is above -20     *)
(* (100 < 120 + variance) and leaves it in Chase otherwise; below          *)
(* 120 - 30 px the test passes for every variance.                         *)
(***************************************************************************)
C18_ChaseToAttackAt100 ==
  [][/\ ChaseTickAt100 =>
          controller'.currentState =
            IF last'.variance > 100 - ATTACK_DISTANCE THEN "ATTACK" ELSE "CHASE"
     /\ \A d \in 0 .. (ATTACK_DISTANCE - DISTANCE_VARIANCE - 1), v \in Variances :
          AICloseEnough(d, v)]_vars

\* an update found the AI in Chase 100 px from the player, drew a variance
\* of -20 or less and left it in Chase
C18_Witness ==
  /\ last.op = "update"
  /\ Abs(offset) = 100
  /\ last.variance <= 100 - ATTACK_DISTANCE
  /\ controller.currentState = "CHASE"
  /\ controller.stateTimer > 0

\* C18 as stated: the first update in Chase at 100 px moves the AI to
\* Attack, for every value of the variance
C18_AsStated ==
  [][ChaseTickAt100 => controller'.currentState = "ATTACK"]_vars

Min(a, b) == IF a < b THEN a ELSE b

\* twice the width and twice the height of what a hitbox and the bounds of a
\* body at (x, y) have in common: 0 when they touch, negative when apart
CommonWidth(hitbox, body, x) ==
  Min(2 * (hitbox.x + hitbox.width), 2 * x + body.width)
    - Max(2 * hitbox.x, 2 * x - body.width)

CommonHeight(hitbox, body, y) ==
  Min(2 * (hitbox.y + hitbox.height), 2 * y + body.height)
    - Max(2 * hitbox.y, 2 * y - body.height)

\* the hitbox and the bounds meet at an edge (or a corner) and nowhere else
Touching(hitbox, body, x, y) ==
  LET w == CommonWidth(hitbox, body, x)
      h == CommonHeight(hitbox, body, y)
  IN  w >= 0 /\ h >= 0 /\ (w = 0 \/ h = 0)

\* the hitbox and the bounds have an area in common
Intersecting(hitbox, body, x, y) ==
  CommonWidth(hitbox, body, x) > 0 /\ CommonHeight(hitbox, body, y) > 0

(***************************************************************************)
(* C20: in the combat resolution of an update, a defender whose bounds are *)
(* compared with the attacker's live hitbox is hit (takeDamage is called   *)
(* and makes it invincible) exactly when hitbox and bounds have an area in *)
(* common; a defender whose bounds only touch the hitbox at an edge is not *)
(* hit.                                                                    *)
(***************************************************************************)
C20_HitNeedsOverlap ==
  last.op = "update" =>
    /\ last.struck \subseteq last.checked
    /\ "enemy" \in last.checked =>
         /\ "enemy" \in last.struck
              <=> Intersecting(last.hitbox.player, EnemyBody, 0, 0)
         /\ "enemy" \in last.struck <=> enemy.isInvincible
    /\ "player" \in last.checked =>
         /\ "player" \in last.struck
              <=> Intersecting(last.hitbox.enemy, PlayerBody, offset, lift)
         /\ "player" \in last.struck <=> player.isInvincible

\* the right edge of the player's live hitbox was on the left edge of the
\* enemy's bounds and the enemy was not hit
C20_Witness ==
  /\ last.op = "update"
  /\ "enemy" \in last.checked
  /\ last.hitbox.player.x + last.hitbox.player.width = 0 - EnemyBody.width \div 2
  /\ Touching(last.hitbox.player, EnemyBody, 0, 0)
  /\ "enemy" \notin last.struck
  /\ ~enemy.isInvincible

\* C20 as stated: a defender whose bounds exactly touch the attacker's live
\* hitbox at an edge is hit
C20_AsStated ==
  last.op = "update" =>
    /\ ("enemy" \in last.checked
          /\ Touching(last.hitbox.player, EnemyBody, 0, 0))
         => "enemy" \in last.struck
    /\ ("player" \in last.checked
          /\ Touching(last.hitbox.enemy, PlayerBody, offset, lift))
         => "player" \in last.struck

\* the call has ended without a usable answer of the server: fetch() rejected,
\* the status was not 2xx or the body could not be read
RemoteFailed ==
  \/ remote.fetched.rejected
  \/ ~ResponseOk(remote.fetched.status)
  \/ ~remote.fetched.readable

(***************************************************************************)
(* C21: the promise of getEnemyAIAction is never rejected; it resolves to  *)
(* one of the seven actions, and to {action: 'wait'} whenever the          *)
(* response is not 2xx, the network fails or the body cannot be read.      *)
(***************************************************************************)
C21_RemoteFailureWaits ==
  /\ remote.promise # "rejected"
  /\ remote.pc = "settled"
       => /\ remote.promise = "resolved"
          /\ remote.value.action \in EnemyActionTypes
          /\ RemoteFailed => remote.value = Wait

\* a 2xx response whose body could not be read has resolved to 'wait'
C21_Witness ==
  /\ remote.pc = "settled"
  /\ ~remote.fetched.rejected
  /\ ResponseOk(remote.fetched.status)
  /\ ~remote.fetched.readable
  /\ remote.promise = "resolved"
  /\ remote.value = Wait
  /\ now > 0

\* Enemy.update() of the current frame, for the key read
EnemyUpdated(key) ==
  EnemyUpdate(enemy, [key |-> key, rnd |-> 0], delta,
              PlayerCounterDodgeGuard(Stages(key, 0).atCounterDodge), now)

(***************************************************************************)
(* C22: for an enemy that an AI controller drives, no key press starts a   *)
(* movement, a jump or an attack warning: in every update the enemy's own  *)
(* update() leaves its acceleration, its vertical velocity and its pending *)
(* attack as it does when no key is down.                                  *)
(***************************************************************************)
C22_KeysIgnoredUnderAI ==
  [][ (last'.op = "update" /\ ~gameEnded)
      => LET keyed == EnemyUpdated(last'.key)
             plain == EnemyUpdated("none")
         IN  /\ keyed.accelerationX = plain.accelerationX
             /\ keyed.body.vyUp = plain.body.vyUp
             /\ keyed.pendingAttack = plain.pendingAttack ]_vars

\* the fight of Spec against a standing enemy that is also being hit
GuardEnv ==
  [ keys |-> {"none", "U"},
    ais |-> AIChoices,
    deltas |-> {2 * TickMs},
    playerBodies |-> {Grounded},
    enemyBodies |-> {EnemyStanding},
    overlaps |-> BOOLEAN,
    fsm |-> FALSE,
    placed |-> FALSE,
    still |-> FALSE,
    places |-> {<<StartOffset, 0>>},
    horizon |-> MaxNow ]

NextGuard ==
  \/ FrameStart(GuardEnv)
  \/ PlayerAnimationCompleteEvent
  \/ EnemyAnimationCompleteEvent
  \/ WarningTweenComplete
  \/ CounterDodgeTimer
  \/ GameSceneUpdate(GuardEnv)
  \/ GameSceneUpdateEnded
  \/ EnemyTakeDamageCall({DAMAGE_PUNCH}, {"punch"})

SpecGuard == Init /\ [][NextGuard]_vars

(***************************************************************************)
(* C23: for both combatants isInvincible and invincibilityTimer agree in   *)
(* every reachable state: isInvincible is true exactly when the timer is   *)
(* above 0, so the flag is gone after the update tick that brings the      *)
(* timer to 0 or below.                                                    *)
(***************************************************************************)
C23_InvincibleWhileTimerRuns ==
  /\ player.isInvincible <=> player.invincibilityTimer > 0
  /\ enemy.isInvincible <=> enemy.invincibilityTimer > 0

\* both fighters were hit, and update ticks have run both timers out
C23_Witness ==
  /\ last.op = "update"
  /\ player.currentHealth < PLAYER_MAX_HEALTH
  /\ player.currentHealth > ENEMY_DAMAGE_PUNCH
  /\ player.invincibilityTimer <= 0
  /\ ~player.isInvincible
  /\ enemy.currentHealth < ENEMY_MAX_HEALTH
  /\ enemy.invincibilityTimer <= 0
  /\ ~enemy.isInvincible

(***************************************************************************)
(* C24: for the player and for the enemy, currentAttackType is non-null    *)
(* exactly while the state is Attacking: in every reachable state the      *)
(* attack type is set if and only if the fighter is Attacking, also after  *)
(* the fighter was hurt, dodged or died in the middle of an attack.        *)
(***************************************************************************)
C24_AttackTypeOnlyWhileAttacking ==
  /\ player.currentAttackType # NULL <=> player.currentState = "ATTACKING"
  /\ enemy.currentAttackType # NULL <=> enemy.currentState = "ATTACKING"

\* every dodge key and both attack keys, against an enemy whose blows never
\* land
DodgeEnv ==
  [ keys |-> {"none", "I", "L", "U", "C", "V"},
    ais |-> {"none", "punch"},
    deltas |-> {2 * TickMs},
    playerBodies |-> {Grounded},
    enemyBodies |-> {EnemyStanding},
    overlaps |-> {FALSE},
    fsm |-> FALSE,
    placed |-> FALSE,
    still |-> FALSE,
    places |-> {<<StartOffset, 0>>},
    horizon |-> MaxNow ]

NextDodge ==
  \/ FrameStart(DodgeEnv)
  \/ PlayerAnimationCompleteEvent
  \/ EnemyAnimationCompleteEvent
  \/ WarningTweenComplete
  \/ CounterDodgeTimer
  \/ GameSceneUpdate(DodgeEnv)

SpecDodge == InitCombo /\ [][NextDodge]_vars

(***************************************************************************)
(* C25: once the player is Dodging (plain, matrix or counter-dodge) the    *)
(* state stays Dodging until the dodge's animation completes, and then is  *)
(* Idle: no step taken while Dodging leaves another state, except the      *)
(* completion of the animation, which leaves Idle; no key pressed in       *)
(* between, punch and uppercut included, changes the state.                *)
(***************************************************************************)
C25_DodgeLocksState ==
  [][ player.currentState = "DODGING"
      => \/ player'.currentState = "DODGING"
         \/ /\ last'.op = "Player.animationcomplete"
            /\ player'.currentState = "IDLE" ]_vars

\* sidekick() called on an enemy that is found standing, dashing or in the
\* air from frame to frame
KickEnv ==
  [ keys |-> {"none"},
    ais |-> {"none"},
    deltas |-> {2 * TickMs},
    playerBodies |-> {Grounded},
    enemyBodies |-> {EnemyStanding, EnemyDashing, EnemyAirborne},
    overlaps |-> {FALSE},
    fsm |-> FALSE,
    placed |-> FALSE,
    still |-> FALSE,
    places |-> {<<StartOffset, 0>>},
    horizon |-> MaxNow ]

NextKick ==
  \/ FrameStart(KickEnv)
  \/ EnemyAnimationCompleteEvent
  \/ WarningTweenComplete
  \/ GameSceneUpdate(KickEnv)
  \/ EnemySidekickCall

SpecKick == InitCombo /\ [][NextKick]_vars

(***************************************************************************)
(* C26: the variant of a sidekick is chosen from the enemy's body at the   *)
(* end of the telegraph, not at the call of sidekick(): the attack that    *)
(* the warning's completion starts is jump_sidekick when the enemy is then *)
(* off the floor or faster than 50 px/s and sidekick otherwise, so an      *)
(* enemy that stood still at the call and is airborne or fast at           *)
(* execution performs jump_sidekick.                                       *)
(***************************************************************************)
C26_SidekickVariantAtExecution ==
  [][ ( /\ last'.op = "Enemy.warningComplete"
        /\ enemy.warningTween = "sidekick"
        /\ enemy.currentState # "ATTACKING"
        /\ enemy'.currentState = "ATTACKING" )
      => /\ enemy'.currentAttackType =
              IF ~enemy.body.blockedDown \/ enemy.body.speed = 2
              THEN "jump_sidekick" ELSE "sidekick"
         /\ (warn.still /\ ~EnemyStandsStill(enemy))
              => enemy'.currentAttackType = "jump_sidekick" ]_vars

\* an enemy that stood still when sidekick() was called has just started a
\* jump_sidekick while dashing on the floor
C26_Witness ==
  /\ last.op = "Enemy.warningComplete"
  /\ warn.type = "sidekick"
  /\ warn.still
  /\ warn.started = now
  /\ enemy.body.blockedDown
  /\ enemy.body.speed = 2
  /\ enemy.currentState = "ATTACKING"
  /\ enemy.currentAttackType = "jump_sidekick"

\* the AI controller drives an enemy that is found standing or dashing,
\* against a player found on either side of it
FaceEnv ==
  [ keys |-> {"none"},
    ais |-> {"none"},
    deltas |-> {4 * TickMs},
    playerBodies |-> {Grounded},
    enemyBodies |-> {EnemyStanding, EnemyDashing},
    overlaps |-> {FALSE},
    fsm |-> TRUE,
    placed |-> TRUE,
    still |-> FALSE,
    places |-> {<<-100, 0>>, <<100, 0>>},
    horizon |-> AIMaxNow ]

NextFace ==
  \/ FrameStart(FaceEnv)
  \/ EnemyAnimationCompleteEvent
  \/ WarningTweenComplete
  \/ AITimeout
  \/ GameSceneUpdate(FaceEnv)

SpecFace == InitCombo /\ [][NextFace]_vars

(***************************************************************************)
(* C27: while the enemy's currentAttackType is jump_sidekick its facing    *)
(* does not change: no step that begins and ends in a jump_sidekick        *)
(* changes facingRight, whether a movement key, the AI's movement or the   *)
(* AI controller's setFacing() asks for the change.                        *)
(***************************************************************************)
C27_FacingLockedInJumpSidekick ==
  [][ ( /\ enemy.currentAttackType = "jump_sidekick"
        /\ enemy'.currentAttackType = "jump_sidekick" )
      => enemy'.facingRight = enemy.facingRight ]_vars

\* the movement interface called on an enemy that no controller drives and
\* that is found at its starting place or MovePixels to the left of it
MoveEnv ==
  [ keys |-> {"none"},
    ais |-> {"none"},
    deltas |-> {2 * TickMs},
    playerBodies |-> {Grounded},
    enemyBodies |-> {EnemyStanding, EnemyAdvanced},
    overlaps |-> {FALSE},
    fsm |-> FALSE,
    placed |-> FALSE,
    still |-> FALSE,
    places |-> {<<StartOffset, 0>>},
    horizon |-> MaxNow ]

NextMove ==
  \/ FrameStart(MoveEnv)
  \/ GameSceneUpdate(MoveEnv)
  \/ EnemyStartMovingLeftCall
  \/ EnemyStartMovingRightCall
  \/ EnemyStopMovingCall
  \/ EnemyMoveLeftByCall
  \/ EnemyMoveRightByCall

SpecMove == InitCombo /\ [][NextMove]_vars

(***************************************************************************)
(* C28: after startMovingLeft() or startMovingRight() the enemy's AI       *)
(* movement direction is -1 or 1 respectively in every later state, until  *)
(* stopMoving() or another movement call is made, also when an earlier     *)
(* moveLeftBy() or moveRightBy() has left a target that was not reached.   *)
(***************************************************************************)
C28_StartMovingKeepsDirection ==
  /\ track.moved = "startMovingLeft" => enemy.aiMovementDirection = -1
  /\ track.moved = "startMovingRight" => enemy.aiMovementDirection = 1

(***************************************************************************)
(* C29: without forceState() the AI state changes only along the edges     *)
(* Idle -> Chase, Chase -> Attack, Chase -> Idle, Attack -> Chase,         *)
(* Retreat -> Chase (only once stateTimer has reached 500 ms),             *)
(* Attack -> Retreat (in the callback set after an attack) and anything    *)
(* -> Idle when the player is dead: every step that changes the            *)
(* controller's state takes one of these edges, so Attack is entered from  *)
(* Chase only and Retreat from Attack only.                                *)
(***************************************************************************)
C29_AIStateEdges ==
  [][ controller'.currentState # controller.currentState
      => LET from == controller.currentState
             to == controller'.currentState
         IN  \/ <<from, to>> \in {<<"IDLE", "CHASE">>, <<"CHASE", "ATTACK">>,
                                  <<"CHASE", "IDLE">>, <<"ATTACK", "CHASE">>}
             \/ /\ <<from, to>> = <<"RETREAT", "CHASE">>
                /\ controller.stateTimer + delta >= RETREAT_DURATION
             \/ /\ <<from, to>> = <<"ATTACK", "RETREAT">>
                /\ last'.op = "AI.timeout"
             \/ /\ to = "IDLE"
                /\ PlayerIsDead(player) ]_vars

\* the controller has come back to Chase from a Retreat that followed an
\* attack
C29_Witness ==
  /\ last.op = "update"
  /\ controller.currentState = "CHASE"
  /\ controller.stateTimer = 0
  /\ track.from = "RETREAT"
  /\ track.since >= RETREAT_DURATION

\* the AI controller's fight, with the enemy also being hit: a hit cuts the
\* enemy's attack short and frees it for the next one
NextCooldown ==
  \/ FrameStart(AIEnv)
  \/ EnemyAnimationCompleteEvent
  \/ WarningTweenComplete
  \/ AITimeout
  \/ GameSceneUpdate(AIEnv)
  \/ EnemyTakeDamageCall({DAMAGE_PUNCH}, {"punch"})

SpecCooldown == InitCombo /\ [][NextCooldown]_vars

(***************************************************************************)
(* C30: two consecutive attacks that the AI controller starts (punch() or  *)
(* sidekick() returning true from performAttack) are at least              *)
(* attackCooldown ms of accumulated tick delta apart: the sum of the       *)
(* deltas of the controller's ticks from the first attack to the second,   *)
(* the second's own tick included, is never below the cooldown, with or    *)
(* without a hesitation before the attack.                                 *)
(***************************************************************************)
C30_CooldownBetweenAttacks ==
  track.gap >= 0 => track.gap >= controller.attackCooldown

\* the controller has just started another attack, on the first tick on
\* which the cooldown had passed
C30_Witness ==
  /\ last.op = "update"
  /\ track.since = 0
  /\ track.gap >= ATTACK_COOLDOWN
  /\ track.gap < ATTACK_COOLDOWN + delta
  /\ EnemyIsShowingWarning(enemy)
  /\ enemy.attackExecuteTime = now + ATTACK_WARNING_DURATION

\* the AI controller's fight from frame to frame of TickMs, so that several
\* ticks pass between an attack and its callback; the enemy may be killed
StaleEnv ==
  [ keys |-> {"none"},
    ais |-> {"none"},
    deltas |-> {TickMs},
    playerBodies |-> {Grounded},
    enemyBodies |-> {EnemyStanding},
    overlaps |-> {FALSE},
    fsm |-> TRUE,
    placed |-> TRUE,
    still |-> FALSE,
    places |-> {<<-200, 0>>, <<-100, 0>>},
    horizon |-> MaxNow ]

NextStale ==
  \/ FrameStart(StaleEnv)
  \/ WarningTweenComplete
  \/ AITimeout
  \/ GameSceneUpdate(StaleEnv)
  \/ GameSceneUpdateEnded
  \/ EnemyTakeDamageCall({ENEMY_MAX_HEALTH}, {NULL})

SpecStale == InitCombo /\ [][NextStale]_vars

(***************************************************************************)
(* C31: a transition that the AI controller scheduled after an attack does *)
(* nothing when it is stale as it fires: a callback changes the            *)
(* controller's state only if the controller has been in Attack ever since *)
(* the callback was scheduled and the enemy is alive.                      *)
(***************************************************************************)
C31_StaleCallbackIsNoOp ==
  [][ (last'.op = "AI.timeout" /\ controller'.currentState # controller.currentState)
      => /\ (controller.timeouts \ controller'.timeouts) \cap track.stale = {}
         /\ ~EnemyIsDead(enemy) ]_vars

(***************************************************************************)
(* C32: the scheduled start of a queued counter-dodge checks the player    *)
(* as it fires: when the player is then dead, Hurt or Attacking, the       *)
(* callback leaves the player's state as it is.                            *)
(***************************************************************************)
C32_QueuedDodgeChecksState ==
  [][ ( /\ last'.op = "Player.counterDodgeTimer"
        /\ \/ PlayerIsDead(player)
           \/ player.currentState \in {"HURT", "ATTACKING"} )
      => player'.currentState = player.currentState ]_vars

(***************************************************************************)
(* C33: when the AI controller inserts a hesitation before an attack, the  *)
(* attackPauseTimer it sets is between 200 ms and 300 ms.                  *)
(***************************************************************************)
C33_HesitationRange ==
  [][ (~controller.isWaitingToAttack /\ controller'.isWaitingToAttack)
      => /\ controller'.attackPauseTimer >= 200
         /\ controller'.attackPauseTimer <= 300 ]_vars

\* the brawl of SpecBrawl between fighters that one blow kills
InitDuel == Start({ENEMY_DAMAGE_PUNCH}, {DAMAGE_PUNCH})

NextDuel ==
  \/ FrameStart(BrawlEnv)
  \/ PlayerAnimationCompleteEvent
  \/ EnemyAnimationCompleteEvent
  \/ WarningTweenComplete
  \/ GameSceneUpdate(BrawlEnv)
  \/ GameSceneUpdateEnded

SpecDuel == InitDuel /\ [][NextDuel]_vars

(***************************************************************************)
(* C34: the player and the enemy are never both dead: one tick's combat    *)
(* resolution kills one side at most, gameEnded is set in the tick in      *)
(* which either side dies, and once it is set no tick changes the health   *)
(* of either combatant.                                                    *)
(***************************************************************************)
C34_OneSideDies ==
  /\ [](~(PlayerIsDead(player) /\ EnemyIsDead(enemy)))
  /\ []((PlayerIsDead(player) \/ EnemyIsDead(enemy)) => gameEnded)
  /\ [][ gameEnded => /\ player'.currentHealth = player.currentHealth
                      /\ enemy'.currentHealth = enemy.currentHealth ]_vars

\* the enemy has been killed by a player whom one blow would have killed,
\* and a tick has run after the end of the game
C34_Witness ==
  /\ gameEnded
  /\ phase = "frame"
  /\ last.op = "update"
  /\ last.checked = {}
  /\ EnemyIsDead(enemy)
  /\ player.currentHealth = ENEMY_DAMAGE_PUNCH

\* the AI-driven enemy and a player who stays where the first frame finds
\* them: the distance is the same on every tick of a run
HoldEnv ==
  [ keys |-> {"none"},
    ais |-> {"none"},
    deltas |-> {4 * TickMs},
    playerBodies |-> {Grounded},
    enemyBodies |-> {EnemyStanding},
    overlaps |-> {FALSE},
    fsm |-> TRUE,
    placed |-> TRUE,
    still |-> TRUE,
    places |-> {<<-2500, 0>>, <<-1000, 0>>, <<-145, 0>>, <<-100, 0>>},
    horizon |-> AIMaxNow ]

NextHold ==
  \/ FrameStart(HoldEnv)
  \/ EnemyAnimationCompleteEvent
  \/ WarningTweenComplete
  \/ AITimeout
  \/ GameSceneUpdate(HoldEnv)

SpecHold == InitCombo /\ [][NextHold]_vars

(***************************************************************************)
(* C35: with the player alive and at a constant distance, a tick on which  *)
(* the controller went from Idle to Chase is not followed by a tick on     *)
(* which it goes from Chase back to Idle, whatever the distance and the    *)
(* variance drawn on either tick.  In SpecHold the distance is constant.   *)
(***************************************************************************)
C35_NoIdleChaseFlip ==
  [][ ( /\ last'.op = "update"
        /\ ~PlayerIsDead(player')
        /\ offset' = offset
        /\ track.edge = <<"IDLE", "CHASE">> )
      => track'.edge # <<"CHASE", "IDLE">> ]_vars

(***************************************************************************)
(* C36: with the distance constant, a tick on which the controller went    *)
(* from Chase to Attack is not followed by a tick on which it goes from    *)
(* Attack back to Chase: a distance that lets it enter Attack lets it      *)
(* stay there.  In SpecHold the distance is constant.                      *)
(***************************************************************************)
C36_NoChaseAttackFlip ==
  [][ ( /\ last'.op = "update"
        /\ offset' = offset
        /\ track.edge = <<"CHASE", "ATTACK">> )
      => track'.edge # <<"ATTACK", "CHASE">> ]_vars

(***************************************************************************)
(* C37: in every reachable state the enemy does not show a warning while   *)
(* it is Attacking: the warning is hidden before the telegraphed attack    *)
(* starts and no warning starts during an attack.                          *)
(***************************************************************************)
C37_NoWarningWhileAttacking ==
  ~(EnemyIsShowingWarning(enemy) /\ enemy.currentState = "ATTACKING")

\* punch() has just been refused by an enemy in the middle of an attack that
\* its warning had announced
C37_Witness ==
  /\ last.op = "Enemy.punch"
  /\ ~last.ok
  /\ enemy.currentState = "ATTACKING"
  /\ ~EnemyIsShowingWarning(enemy)
  /\ warn.started >= 0
  /\ now > warn.started

\* a fight at close range in short frames: the player uppercuts, the enemy
\* punches and kicks
HitsEnv ==
  [ keys |-> {"none", "V"},
    ais |-> AIChoices,
    deltas |-> {TickMs},
    playerBodies |-> {Grounded},
    enemyBodies |-> {EnemyStanding, EnemyDashing},
    overlaps |-> {FALSE},
    fsm |-> FALSE,
    placed |-> TRUE,
    still |-> TRUE,
    places |-> {<<-100, 0>>},
    horizon |-> BrawlMaxNow ]

NextHits ==
  \/ FrameStart(HitsEnv)
  \/ PlayerAnimationCompleteEvent
  \/ EnemyAnimationCompleteEvent
  \/ WarningTweenComplete
  \/ GameSceneUpdate(HitsEnv)

SpecHits == InitCombo /\ [][NextHits]_vars

(***************************************************************************)
(* C38: one attack (one started punch, uppercut, aerial punch, sidekick or *)
(* jump sidekick) takes health from the other fighter on one tick at most, *)
(* although its hitbox is live on several ticks.                           *)
(***************************************************************************)
C38_OneHitPerAttack ==
  /\ track.hits.player <= 1
  /\ track.hits.enemy <= 1

\* the enemy's attack has hit the player on an earlier tick, its hitbox is
\* live and on the player again on this tick, and the player is not hit
C38_Witness ==
  /\ last.op = "update"
  /\ track.hits.enemy = 1
  /\ EnemyHitboxLive(enemy)
  /\ enemy.animT > 0
  /\ last.overlap
  /\ player.isInvincible
  /\ player.invincibilityTimer < PLAYER_INVINCIBILITY_DURATION

(***************************************************************************)
(* C39: whenever counterDodgeQueued is true the player is invincible and   *)
(* the delayed counter-dodge start is pending; the start, when it runs,    *)
(* clears the flag.  The flag is never true with no start pending.         *)
(***************************************************************************)
C39_QueuedDodgeIsPending ==
  /\ [](player.counterDodgeQueued
          => /\ player.isInvincible
             /\ player.invincibilityTimer > 0
             /\ player.dodgeDue >= 0)
  /\ [][ last'.op = "Player.counterDodgeTimer"
         => /\ player.counterDodgeQueued
            /\ ~player'.counterDodgeQueued ]_vars

\* a frame has passed since the press that queued the counter-dodge, and the
\* start is still to come
C39_Witness ==
  /\ last.op = "update"
  /\ player.counterDodgeQueued
  /\ press.stage = "warned"
  /\ now > press.at
  /\ now < player.dodgeDue
  /\ player.isInvincible

(***************************************************************************)
(* The power boosters of the scene and the restart from the game-over      *)
(* overlay.  isPlayerPoweredUp is a static field of the class: it belongs  *)
(* to the page, not to the scene, and scene.start('Game') leaves it as it  *)
(* is, while the timer events of the old scene's clock are dropped with    *)
(* the scene and GameScene.create() builds new boosters.                   *)
(***************************************************************************)
BOOST_DURATION == 10000

\* GameScene.createPowerBoosters() creates three boosters
Boosters == {1, 2, 3}

BoostMaxNow == 11000

\* the overlap callback of GameScene for booster i: collect() and, within
\* it, applyPowerBoost() with its delayedCall(BOOST_DURATION)
PowerBoosterCollect ==
  /\ phase = "frame"
  /\ ~gameEnded
  /\ \E i \in Boosters :
       booster' = IF i \in booster.isCollected \/ booster.isPlayerPoweredUp
                  THEN booster
                  ELSE [isPlayerPoweredUp |-> TRUE,
                        revertDue |-> now + BOOST_DURATION,
                        isCollected |-> booster.isCollected \cup {i}]
  /\ last' = [NoStep EXCEPT !.op = "PowerBooster.collect"]
  /\ UNCHANGED <<remote, player, enemy, controller, offset, lift, now, delta,
                 gameEnded, phase, History>>

\* the delayedCall of applyPowerBoost, run by the clock of the scene
PowerBoosterRevert ==
  /\ phase = "events"
  /\ booster.revertDue >= 0
  /\ now >= booster.revertDue
  /\ booster' = [booster EXCEPT !.isPlayerPoweredUp = FALSE, !.revertDue = -1]
  /\ last' = [NoStep EXCEPT !.op = "PowerBooster.revert"]
  /\ UNCHANGED <<remote, player, enemy, controller, offset, lift, now, delta,
                 gameEnded, phase, History>>

\* the RESTART button of the game-over overlay: scene.start('Game') shuts
\* the scene down and runs GameScene.create() again
GameOverOverlayRestart ==
  /\ phase = "frame"
  /\ gameEnded
  /\ player' = PlayerInit
  /\ enemy' = EnemyInit
  /\ controller' = AIInit
  /\ booster' = [isPlayerPoweredUp |-> booster.isPlayerPoweredUp,
                 revertDue |-> -1,
                 isCollected |-> {}]
  /\ offset' = StartOffset
  /\ lift' = 0
  /\ gameEnded' = FALSE
  /\ last' = [NoStep EXCEPT !.op = "GameOverOverlay.restart"]
  /\ press' = [at |-> -1, T |-> 0, stage |-> "none", executed |-> -1, dodged |-> -1]
  /\ combo' = [at |-> -1, clean |-> FALSE, gap |-> -1]
  /\ jump' = [at |-> -1, gap |-> -1, count |-> 0]
  /\ warn' = NoWarning
  /\ track' = NoTrack
  /\ UNCHANGED <<remote, now, delta, phase>>

\* quiet rounds in long frames: boosters are collected, the enemy is killed
\* at some time, and the scene is restarted after the end of a round
BoostEnv ==
  [ keys |-> {"none"},
    ais |-> {"none"},
    deltas |-> {20 * TickMs},
    playerBodies |-> {Grounded},
    enemyBodies |-> {EnemyStanding},
    overlaps |-> {FALSE},
    fsm |-> FALSE,
    placed |-> FALSE,
    still |-> FALSE,
    places |-> {<<StartOffset, 0>>},
    horizon |-> BoostMaxNow ]

NextBoost ==
  \/ FrameStart(BoostEnv)
  \/ EnemyAnimationCompleteEvent
  \/ PowerBoosterRevert
  \/ GameSceneUpdate(BoostEnv)
  \/ GameSceneUpdateEnded
  \/ EnemyTakeDamageCall({ENEMY_MAX_HEALTH}, {"punch"})
  \/ PowerBoosterCollect
  \/ GameOverOverlayRestart

SpecBoost == InitCombo /\ [][NextBoost]_vars

(***************************************************************************)
(* C40: isPlayerPoweredUp is true only while a revert is pending that will *)
(* clear it: whatever boosters were collected and whenever the scene was   *)
(* restarted, a round starts with the flag false.                          *)
(***************************************************************************)
C40_PoweredUpOnlyWhileRevertPending ==
  /\ [](booster.isPlayerPoweredUp => booster.revertDue >= 0)
  /\ [][ last'.op = "GameOverOverlay.restart"
         => ~booster'.isPlayerPoweredUp ]_vars
=============================================================================
